---------------------------- MODULE Spec2Model ----------------------------
(***************************************************************************)
(* Pelubot: availability and reservation consistency.                      *)
(*                                                                         *)
(* The reservation store (data.RESERVATIONS), the CLI booking flows of     *)
(* cli_menu.py and the slot/booking helpers of telegram_webhook.py.        *)
(* logic.py, data.py and models.py are not part of the sources at hand:    *)
(* find_available_slots, cancel_reservation, apply_reschedule, the catalog *)
(* and the backend endpoints are written from the design document.         *)
(*                                                                         *)
(* Time: a date-time is the number of minutes since day 0, 00:00.          *)
(* A reservation id "res_<n>" is the pair <<"res", n>>.                    *)
(***************************************************************************)
EXTENDS Integers, Sequences, FiniteSets, TLC

\* ------------------------------------------------------------------ bounds
\* Stores of up to MaxRes reservations are explored: no booking is taken
\* once the store holds that many.
MaxRes == 2

\* ------------------------------------------------------------- date-times
None == "None"

Dt(d, t) == d * 1440 + t
DayOf(dt) == dt \div 1440
TimeOf(dt) == dt % 1440

\* ---------------------------------------------------------------- catalog
SERVICES ==
  << [id |-> "corte", duration_min |-> 30],
     [id |-> "tinte", duration_min |-> 45] >>

PROS ==
  << [id |-> "ana",  services |-> {"corte", "tinte"}],
     [id |-> "luis", services |-> {"tinte"}] >>

ServiceIds == { SERVICES[i].id : i \in 1..Len(SERVICES) }
ProIds == { PROS[i].id : i \in 1..Len(PROS) }

SERVICE_BY_ID == [ s \in ServiceIds |->
                     (CHOOSE i \in 1..Len(SERVICES) : SERVICES[i].id = s) ]
PRO_BY_ID == [ p \in ProIds |->
                 (CHOOSE i \in 1..Len(PROS) : PROS[i].id = p) ]

duration_min(service_id) == SERVICES[SERVICE_BY_ID[service_id]].duration_min
authorized(pro_id, service_id) == service_id \in PROS[PRO_BY_ID[pro_id]].services

\* Days of the calendar the flows may ask for, and their opening windows
\* [from, to) in minutes of the day: day 0 opens 10:00-12:00, day 1 opens
\* 10:00-10:45 and 16:00-16:30, day 2 is closed.
Days == {0, 1, 2}

BUSINESS_HOURS(d) ==
  CASE d = 0 -> << <<600, 720>> >>
    [] d = 1 -> << <<600, 645>>, <<960, 990>> >>
    [] OTHER -> << >>

\* ------------------------------------------------------------------ state
VARIABLES
  RESERVATIONS,   \* data.RESERVATIONS: the store, a list in insertion order
  pc,             \* per booker: where its action_book stands
  sel,            \* per booker: the service, day, professional and slot chosen
  result,         \* per booker: what its last action_book printed
  SESSIONS,       \* telegram_webhook.SESSIONS: chat id -> Session
  kb,             \* per chat: the inline keyboard its message shows
  sent,           \* the hours keyboard the handler just run sent, if any
  post,           \* the create_reservation call of the handler just run, if any
  suggested,      \* whether the handler just run printed its "Sugerencias:"
  GCAL,           \* Google Calendar: calendar id -> the events it holds
  DB,             \* the ReservationDB table the importer writes, in insert order
  report,         \* what the last sync-from-gcal printed, if the calendars
                  \* have not changed since
  reply           \* the answer to the text message just handled, if any

vars == << RESERVATIONS, pc, sel, result, SESSIONS, kb, sent, post, suggested,
          GCAL, DB, report, reply >>
bookers == << pc, sel, result >>
telegram == << SESSIONS, kb, sent, post, reply >>
importer == << GCAL, DB, report >>

\* What the variables hold while nothing has been chosen, sent or suggested.
Bookers == {"b1", "b2"}
Chats == {1}
TwoChats == {1, 2}
NoKeyboard == [kind |-> "none", hours |-> << >>]
NoSent == [chat |-> 0, hours |-> << >>, answered |-> FALSE]
NoPost == [chat |-> 0]
NoReply == [chat |-> 0, kind |-> "none", words |-> {}, status |-> 0,
            services |-> << >>]
NoSel == [srv_id |-> None, d |-> 0, pro_id |-> None, start_dt |-> 0]
CalendarIds == {"cal_ana", "cal_luis"}
NoReport == [ran |-> FALSE, crashed |-> FALSE]

\* ------------------------------------------------ availability calculator
overlaps(a_start, a_end, b_start, b_end) == a_start < b_end /\ b_start < a_end

\* No reservation of pro_id in store overlaps [start, end).
is_free(store, pro_id, start, end) ==
  \A i \in 1..Len(store) :
    store[i].professional_id = pro_id =>
      ~overlaps(start, end, store[i].start, store[i].end)

\* window_slots that stops one candidate early: a slot ending exactly at the
\* window's end is left out.
RECURSIVE window_slots_short(_, _, _, _, _, _)
window_slots_short(store, pro_id, dur, cur, wend, acc) ==
  IF cur + dur >= wend THEN acc
  ELSE window_slots_short(store, pro_id, dur, cur + dur, wend,
                          IF is_free(store, pro_id, cur, cur + dur)
                          THEN Append(acc, cur) ELSE acc)

\* The candidates of one window: cur, cur+dur, ... while [cur, cur+dur) fits.
RECURSIVE window_slots(_, _, _, _, _, _)
window_slots(store, pro_id, dur, cur, wend, acc) ==
  IF cur + dur > wend THEN acc
  ELSE window_slots(store, pro_id, dur, cur + dur, wend,
                    IF is_free(store, pro_id, cur, cur + dur)
                    THEN Append(acc, cur) ELSE acc)

RECURSIVE day_slots(_, _, _, _, _, _)
day_slots(store, pro_id, dur, d, k, acc) ==
  IF k > Len(BUSINESS_HOURS(d)) THEN acc
  ELSE day_slots(store, pro_id, dur, d, k + 1,
                 window_slots(store, pro_id, dur,
                              Dt(d, BUSINESS_HOURS(d)[k][1]),
                              Dt(d, BUSINESS_HOURS(d)[k][2]), acc))

\* The slots of one professional for a service on a day.
pro_slots(store, service_id, d, pro_id) ==
  day_slots(store, pro_id, duration_min(service_id), d, 1, << >>)

RECURSIVE sorted(_)
sorted(S) ==
  IF S = {} THEN << >>
  ELSE LET m == CHOOSE x \in S : \A y \in S : x <= y
       IN << m >> \o sorted(S \ {m})

elements(seq) == { seq[i] : i \in 1..Len(seq) }

RECURSIVE all_pro_slots(_, _, _, _, _)
all_pro_slots(store, service_id, d, k, acc) ==
  IF k > Len(PROS) THEN acc
  ELSE all_pro_slots(store, service_id, d, k + 1,
                     IF service_id \in PROS[k].services
                     THEN acc \o pro_slots(store, service_id, d, PROS[k].id)
                     ELSE acc)

\* available_slots that concatenates the professionals' lists as they come.
available_slots_concat(store, service_id, d, pro_id) ==
  IF pro_id # None
  THEN pro_slots(store, service_id, d, pro_id)
  ELSE all_pro_slots(store, service_id, d, 1, << >>)

\* available_slots(service_id, day, professional_id?) over a store snapshot.
available_slots(store, service_id, d, pro_id) ==
  IF pro_id # None
  THEN pro_slots(store, service_id, d, pro_id)
  ELSE sorted(elements(all_pro_slots(store, service_id, d, 1, << >>)))

find_available_slots(service_id, d, pro_id) ==
  available_slots(RESERVATIONS, service_id, d, pro_id)

\* ------------------------------------------------------------------- CLI
\* action_show_slots with the professional dropped from the call.
action_show_slots_any_pro(service_id, d, pro_id) ==
  LET slots == find_available_slots(service_id, d, None)
  IN IF slots = << >> THEN << >> ELSE slots

\* cli_menu.py 107-119: the list may be empty; at most 20 are printed, all
\* are returned.
action_show_slots(service_id, d, pro_id) ==
  LET slots == find_available_slots(service_id, d, pro_id)
  IN IF slots = << >> THEN << >> ELSE slots

\* action_choose_professional: a professional offering the service, or None
\* (Enter at the prompt, or nobody offers it: auto-assignment).
pro_choices(service_id) ==
  { p \in ProIds : authorized(p, service_id) } \cup {None}

\* first_free_pro without the look at the professional's own slots.
first_pro_unchecked(srv_id, d, start_dt, k) ==
  LET offering == { i \in k..Len(PROS) : srv_id \in PROS[i].services }
  IN IF offering = {} THEN None
     ELSE PROS[CHOOSE i \in offering : \A j \in offering : i <= j].id

\* cli_menu.py 153-162: the first professional, in catalog order, that offers
\* the service and has start_dt among its own free slots.
RECURSIVE first_free_pro(_, _, _, _)
first_free_pro(srv_id, d, start_dt, k) ==
  IF k > Len(PROS) THEN None
  ELSE IF /\ srv_id \in PROS[k].services
          /\ start_dt \in elements(find_available_slots(srv_id, d, PROS[k].id))
       THEN PROS[k].id
       ELSE first_free_pro(srv_id, d, start_dt, k + 1)

auto_assign(srv_id, d, pro_id, start_dt) ==
  IF pro_id # None THEN pro_id ELSE first_free_pro(srv_id, d, start_dt, 1)

ResId(n) == << "res", n >>

\* new_reservation with end_dt left at start_dt.
new_reservation_no_duration(srv_id, chosen_pro, start_dt) ==
  [ id              |-> ResId(Len(RESERVATIONS) + 1),
    service_id      |-> srv_id,
    professional_id |-> chosen_pro,
    start           |-> start_dt,
    end             |-> start_dt ]

\* cli_menu.py 148-151 and 167-175
new_reservation(srv_id, chosen_pro, start_dt) ==
  [ id              |-> ResId(Len(RESERVATIONS) + 1),
    service_id      |-> srv_id,
    professional_id |-> chosen_pro,
    start           |-> start_dt,
    end             |-> start_dt + duration_min(srv_id) ]

\* cli_menu.py 147-176, from the chosen slot to the append.
book_commit(srv_id, d, pro_id, start_dt) ==
  LET chosen_pro == auto_assign(srv_id, d, pro_id, start_dt)
  IN IF chosen_pro = None
     THEN UNCHANGED RESERVATIONS
     ELSE RESERVATIONS' =
            Append(RESERVATIONS, new_reservation(srv_id, chosen_pro, start_dt))

\* action_book run to its end with nothing else in between: the slots are
\* listed, the user picks one (or gives up), the reservation is appended.
action_book(srv_id, d, pro_id) ==
  LET slots == action_show_slots(srv_id, d, pro_id)
  IN /\ Len(RESERVATIONS) < MaxRes
     /\ \/ /\ slots # << >>
           /\ \E idx \in 1..Len(slots) :
                book_commit(srv_id, d, pro_id, slots[idx])
        \/ UNCHANGED RESERVATIONS
     /\ suggested' = FALSE
  /\ UNCHANGED << bookers, telegram, importer >>

\* ------------------------------------------------- store: lookup, cancel
find_index(store, rid) ==
  IF \E i \in 1..Len(store) : store[i].id = rid
  THEN CHOOSE i \in 1..Len(store) :
         /\ store[i].id = rid
         /\ \A j \in 1..(i - 1) : store[j].id # rid
  ELSE 0

without(store, i) == SubSeq(store, 1, i - 1) \o SubSeq(store, i + 1, Len(store))

\* cancel(id): removes the reservation, false when the id is unknown.
cancel_reservation(store, rid) ==
  LET i == find_index(store, rid)
  IN IF i = 0 THEN [ok |-> FALSE, store |-> store]
     ELSE [ok |-> TRUE, store |-> without(store, i)]

\* action_cancel that leaves no reservation behind.
action_cancel_all(idx) ==
  /\ RESERVATIONS # << >>
  /\ idx \in 1..Len(RESERVATIONS)
  /\ RESERVATIONS' = << >>
  /\ suggested' = FALSE
  /\ UNCHANGED << bookers, telegram, importer >>

\* cli_menu.py 196-209
action_cancel(idx) ==
  /\ RESERVATIONS # << >>
  /\ idx \in 1..Len(RESERVATIONS)
  /\ LET res == cancel_reservation(RESERVATIONS, RESERVATIONS[idx].id)
     IN RESERVATIONS' = res.store
  /\ suggested' = FALSE
  /\ UNCHANGED << bookers, telegram, importer >>

\* --------------------------------------------------- reschedule validator
\* An optional date or time of a request: << >> when not given, << x >> else.
Opt(S) == { << >> } \cup { << x >> : x \in S }

\* apply_reschedule that validates against the whole store, the reservation
\* being moved included.
apply_reschedule_no_exclusion(store, rid, new_date, new_time, new_pro) ==
  LET i == find_index(store, rid)
  IN IF i = 0 THEN [ok |-> FALSE, store |-> store]
     ELSE
       LET r     == store[i]
           pro   == IF new_pro # None THEN new_pro ELSE r.professional_id
           d     == IF new_date # << >> THEN new_date[1] ELSE DayOf(r.start)
           t     == IF new_time # << >> THEN new_time[1] ELSE TimeOf(r.start)
           start == Dt(d, t)
           end   == start + duration_min(r.service_id)
       IN IF ~authorized(pro, r.service_id)
          THEN [ok |-> FALSE, store |-> store]
          ELSE IF start \notin
                    elements(available_slots(store, r.service_id, d, pro))
          THEN [ok |-> FALSE, store |-> store]
          ELSE [ok |-> TRUE,
                store |-> [store EXCEPT ![i] =
                             [r EXCEPT !.professional_id = pro,
                                       !.start = start,
                                       !.end = end]]]

\* apply_reschedule that hands the reservation to the new professional
\* before it looks at the slot, and on a refusal leaves it there.
apply_reschedule_pro_first(store, rid, new_date, new_time, new_pro) ==
  LET i == find_index(store, rid)
  IN IF i = 0 THEN [ok |-> FALSE, store |-> store]
     ELSE
       LET r     == store[i]
           pro   == IF new_pro # None THEN new_pro ELSE r.professional_id
           d     == IF new_date # << >> THEN new_date[1] ELSE DayOf(r.start)
           t     == IF new_time # << >> THEN new_time[1] ELSE TimeOf(r.start)
           start == Dt(d, t)
           end   == start + duration_min(r.service_id)
       IN IF ~authorized(pro, r.service_id)
          THEN [ok |-> FALSE, store |-> store]
          ELSE IF start \notin
                    elements(available_slots(without(store, i), r.service_id, d, pro))
          THEN [ok |-> FALSE,
                store |-> [store EXCEPT ![i] =
                             [r EXCEPT !.professional_id = pro]]]
          ELSE [ok |-> TRUE,
                store |-> [store EXCEPT ![i] =
                             [r EXCEPT !.professional_id = pro,
                                       !.start = start,
                                       !.end = end]]]

\* apply_reschedule that writes the new start before it validates, and on a
\* refusal leaves it written.
apply_reschedule_partial(store, rid, new_date, new_time, new_pro) ==
  LET i == find_index(store, rid)
  IN IF i = 0 THEN [ok |-> FALSE, store |-> store]
     ELSE
       LET r     == store[i]
           pro   == IF new_pro # None THEN new_pro ELSE r.professional_id
           d     == IF new_date # << >> THEN new_date[1] ELSE DayOf(r.start)
           t     == IF new_time # << >> THEN new_time[1] ELSE TimeOf(r.start)
           start == Dt(d, t)
           end   == start + duration_min(r.service_id)
       IN IF ~authorized(pro, r.service_id)
          THEN [ok |-> FALSE, store |-> store]
          ELSE IF start \notin
                    elements(available_slots(without(store, i), r.service_id, d, pro))
          THEN [ok |-> FALSE,
                store |-> [store EXCEPT ![i] = [r EXCEPT !.start = start]]]
          ELSE [ok |-> TRUE,
                store |-> [store EXCEPT ![i] =
                             [r EXCEPT !.professional_id = pro,
                                       !.start = start,
                                       !.end = end]]]

apply_reschedule(store, rid, new_date, new_time, new_pro) ==
  LET i == find_index(store, rid)
  IN IF i = 0 THEN [ok |-> FALSE, store |-> store]
     ELSE
       LET r     == store[i]
           pro   == IF new_pro # None THEN new_pro ELSE r.professional_id
           d     == IF new_date # << >> THEN new_date[1] ELSE DayOf(r.start)
           t     == IF new_time # << >> THEN new_time[1] ELSE TimeOf(r.start)
           start == Dt(d, t)
           end   == start + duration_min(r.service_id)
       IN IF ~authorized(pro, r.service_id)
          THEN [ok |-> FALSE, store |-> store]
          ELSE IF start \notin
                    elements(available_slots(without(store, i), r.service_id, d, pro))
          THEN [ok |-> FALSE, store |-> store]
          ELSE [ok |-> TRUE,
                store |-> [store EXCEPT ![i] =
                             [r EXCEPT !.professional_id = pro,
                                       !.start = start,
                                       !.end = end]]]

\* The times of day a user may type at the reschedule prompt: the candidate
\* grid of the services, and 10:15, which is on no grid.
Times == {600, 615, 630}

\* action_reschedule that looks for alternatives with the reservation taken
\* out of the store, and does not put it back.
action_reschedule_dropping(idx, new_date, new_time, sprof) ==
  /\ RESERVATIONS # << >>
  /\ idx \in 1..Len(RESERVATIONS)
  /\ IF sprof # None /\ sprof \notin ProIds
     THEN /\ UNCHANGED RESERVATIONS
          /\ suggested' = FALSE
     ELSE LET res == apply_reschedule(RESERVATIONS, RESERVATIONS[idx].id,
                                      new_date, new_time, sprof)
          IN /\ RESERVATIONS' = IF res.ok THEN res.store
                                ELSE without(RESERVATIONS, idx)
             /\ suggested' = ~res.ok
  /\ UNCHANGED << bookers, telegram, importer >>

\* action_reschedule that, as its own check of the professional found the id
\* in the catalog, writes the professional asked for whatever the validator
\* answers.
action_reschedule_exists_only(idx, new_date, new_time, sprof) ==
  /\ RESERVATIONS # << >>
  /\ idx \in 1..Len(RESERVATIONS)
  /\ IF sprof # None /\ sprof \notin ProIds
     THEN /\ UNCHANGED RESERVATIONS
          /\ suggested' = FALSE
     ELSE LET res == apply_reschedule(RESERVATIONS, RESERVATIONS[idx].id,
                                      new_date, new_time, sprof)
              i   == find_index(RESERVATIONS, RESERVATIONS[idx].id)
          IN /\ RESERVATIONS' =
                  IF sprof # None
                  THEN [res.store EXCEPT ![i].professional_id = sprof]
                  ELSE res.store
             /\ suggested' = ~res.ok
  /\ UNCHANGED << bookers, telegram, importer >>

\* action_reschedule that, once the validator accepts, takes the reservation
\* out of the list and appends the moved one at its end.
action_reschedule_reappend(idx, new_date, new_time, sprof) ==
  /\ RESERVATIONS # << >>
  /\ idx \in 1..Len(RESERVATIONS)
  /\ IF sprof # None /\ sprof \notin ProIds
     THEN /\ UNCHANGED RESERVATIONS
          /\ suggested' = FALSE
     ELSE LET res == apply_reschedule(RESERVATIONS, RESERVATIONS[idx].id,
                                      new_date, new_time, sprof)
              i   == find_index(RESERVATIONS, RESERVATIONS[idx].id)
          IN /\ RESERVATIONS' = IF res.ok
                                THEN Append(without(res.store, i), res.store[i])
                                ELSE res.store
             /\ suggested' = ~res.ok
  /\ UNCHANGED << bookers, telegram, importer >>

\* cli_menu.py 211-275; sprof "zoe" is an id no professional has.  A refused
\* reschedule prints "Sugerencias:" and what find_available_slots returns for
\* the reservation's service on the day and with the professional asked for
\* (257-273).
action_reschedule(idx, new_date, new_time, sprof) ==
  /\ RESERVATIONS # << >>
  /\ idx \in 1..Len(RESERVATIONS)
  /\ IF sprof # None /\ sprof \notin ProIds
     THEN /\ UNCHANGED RESERVATIONS
          /\ suggested' = FALSE
     ELSE LET res == apply_reschedule(RESERVATIONS, RESERVATIONS[idx].id,
                                      new_date, new_time, sprof)
          IN /\ RESERVATIONS' = res.store
             /\ suggested' = ~res.ok
  /\ UNCHANGED << bookers, telegram, importer >>

\* ------------------------------------------------------------ the CLI menu
Init ==
  /\ RESERVATIONS = << >>
  /\ pc = [b \in Bookers |-> "menu"]
  /\ sel = [b \in Bookers |-> NoSel]
  /\ result = [b \in Bookers |-> "none"]
  /\ SESSIONS = << >>
  /\ kb = [c \in TwoChats |-> NoKeyboard]
  /\ sent = NoSent
  /\ post = NoPost
  /\ suggested = FALSE
  /\ GCAL = [c \in CalendarIds |-> {}]
  /\ DB = << >>
  /\ report = NoReport
  /\ reply = NoReply

Book == \E srv_id \in ServiceIds, d \in Days :
          \E pro_id \in pro_choices(srv_id) : action_book(srv_id, d, pro_id)

Cancel == \E idx \in 1..MaxRes : action_cancel(idx)

Reschedule ==
  \E idx \in 1..MaxRes, new_date \in Opt(Days),
     new_time \in Opt(Times), sprof \in ProIds \cup {None} :
    action_reschedule(idx, new_date, new_time, sprof)

RescheduleUnknownPro ==
  \E idx \in 1..MaxRes : action_reschedule(idx, << >>, << >>, "zoe")

\* One user at the menu: every action runs from its first prompt to its end.
Next == Book \/ Cancel \/ Reschedule \/ RescheduleUnknownPro

Spec == Init /\ [][Next]_vars

\* ----------------------------------------------- booking flows side by side
\* Several booking flows over the one store.  action_book reads the slots
\* (line 141), waits for the user to pick one (line 144) and only then runs
\* lines 147-176: whatever another flow does to the store meanwhile goes
\* unseen by the slot list the user picks from.
in_flight == Cardinality({ b \in Bookers : pc[b] = "choosing" })

\* cli_menu.py 126-147
book_choose(b, srv_id, d, pro_id) ==
  LET slots == action_show_slots(srv_id, d, pro_id)
  IN /\ pc[b] = "menu"
     /\ Len(RESERVATIONS) + in_flight < MaxRes
     /\ slots # << >>
     /\ \E idx \in 1..Len(slots) :
          sel' = [sel EXCEPT ![b] = [srv_id |-> srv_id, d |-> d,
                                    pro_id |-> pro_id, start_dt |-> slots[idx]]]
     /\ pc' = [pc EXCEPT ![b] = "choosing"]
     /\ suggested' = FALSE
     /\ UNCHANGED << RESERVATIONS, result, telegram, importer >>

\* cli_menu.py 147-182
book_append(b) ==
  /\ pc[b] = "choosing"
  /\ book_commit(sel[b].srv_id, sel[b].d, sel[b].pro_id, sel[b].start_dt)
  /\ result' = [result EXCEPT ![b] =
                  IF auto_assign(sel[b].srv_id, sel[b].d, sel[b].pro_id,
                                 sel[b].start_dt) = None
                  THEN "No hay profesional disponible"
                  ELSE "Reserva confirmada"]
  /\ pc' = [pc EXCEPT ![b] = "menu"]
  /\ sel' = [sel EXCEPT ![b] = NoSel]
  /\ suggested' = FALSE
  /\ UNCHANGED << telegram, importer >>

BookChoose == \E b \in Bookers, srv_id \in ServiceIds, d \in Days :
                \E pro_id \in pro_choices(srv_id) : book_choose(b, srv_id, d, pro_id)

BookAppend == \E b \in Bookers : book_append(b)

NextConc == BookChoose \/ BookAppend \/ Cancel \/ Reschedule

SpecConc == Init /\ [][NextConc]_vars

\* ------------------------------------------------------- Telegram webhook
\* telegram_webhook.py 147-153
Session(step, service, professional, day, time, welcomed) ==
  [ step |-> step, service |-> service, professional |-> professional,
    day |-> day, time |-> time, welcomed |-> welcomed ]

NewSession == Session("menu", None, None, << >>, << >>, FALSE)

\* telegram_webhook.py 157-162: the session of the chat, made on first use.
get_session(chat_id) ==
  IF chat_id \in DOMAIN SESSIONS THEN SESSIONS[chat_id] ELSE NewSession

\* put_session that stores the session under every chat id known.
put_session_for_all(chat_id, sess) ==
  [ c \in DOMAIN SESSIONS \cup {chat_id} |-> sess ]

\* telegram_webhook.py 155-162: SESSIONS[chat_id] is the chat's Session, the
\* other entries stay.
put_session(chat_id, sess) ==
  [ c \in DOMAIN SESSIONS \cup {chat_id} |->
      IF c = chat_id THEN sess ELSE SESSIONS[c] ]

\* How a request to the backend ends: answered, answered with an error status
\* because the backend is not ready, or not answered at all (httpx raises).
Net == {"ok", "500", "raise"}

\* POST /slots of the backend: the availability calculator over the store,
\* refused when the professional does not offer the service.
backend_slots(service_id, d, pro_id) ==
  IF pro_id # None /\ ~authorized(pro_id, service_id)
  THEN [status |-> 404, slots |-> << >>]
  ELSE [status |-> 200,
        slots |-> available_slots(RESERVATIONS, service_id, d, pro_id)]

\* POST /reservations of the backend: create(service_id, professional_id,
\* start) with the overlap re-checked at commit.
backend_create(service_id, pro_id, start) ==
  IF ~authorized(pro_id, service_id)
  THEN [status |-> 404, store |-> RESERVATIONS]
  ELSE IF ~is_free(RESERVATIONS, pro_id, start, start + duration_min(service_id))
  THEN [status |-> 409, store |-> RESERVATIONS]
  ELSE [status |-> 200,
        store |-> Append(RESERVATIONS,
                         new_reservation(service_id, pro_id, start))]

\* telegram_webhook.py 196 and 208: the hours shown when the backend gives none.
DUMMY_HOURS == << 600, 630, 660, 720, 960, 990, 1020 >>

\* telegram_webhook.py 199-207: "2025-09-05T10:00:00" -> "10:00".
norm(slots) == [ i \in 1..Len(slots) |-> TimeOf(slots[i]) ]

\* telegram_webhook.py 183-208, for a request that was answered (net is "ok"
\* or "500"); an unanswered one raises in the caller.
fetch_slots(service_id, day_iso, pro, net) ==
  LET r == backend_slots(service_id, day_iso,
                         IF pro # None /\ pro # "any" THEN pro ELSE None)
  IN IF net # "ok" \/ r.status # 200 THEN DUMMY_HOURS
     ELSE IF norm(r.slots) = << >> THEN DUMMY_HOURS ELSE norm(r.slots)

\* telegram_webhook.py 210-221; nets[p] is how the request for p ends.
RECURSIVE choose_pro_for_slot(_, _, _, _, _)
choose_pro_for_slot(service_id, day_iso, hhmm, nets, k) ==
  IF k > Len(PROS) THEN None
  ELSE IF /\ service_id \in PROS[k].services
          /\ nets[PROS[k].id] # "raise"
          /\ hhmm \in elements(fetch_slots(service_id, day_iso, PROS[k].id,
                                           nets[PROS[k].id]))
       THEN PROS[k].id
       ELSE choose_pro_for_slot(service_id, day_iso, hhmm, nets, k + 1)

\* telegram_webhook.py 230-232
resolve_pro(service_id, pro, day_iso, hhmm, nets) ==
  IF pro # None /\ pro # "any" THEN pro
  ELSE choose_pro_for_slot(service_id, day_iso, hhmm, nets, 1)

Keyboard(kind, hours) == [kind |-> kind, hours |-> hours]

\* reset_session that leaves the welcomed flag as it is.
reset_session_but_welcomed(chat_id) ==
  put_session(chat_id,
              [NewSession EXCEPT !.welcomed = get_session(chat_id).welcomed])

\* telegram_webhook.py 164-165
reset_session(chat_id) == put_session(chat_id, NewSession)

\* The answer to the text "/start": the welcome with the menu.
StartReply(c) ==
  [NoReply EXCEPT !.chat = c, !.kind = "start", !.status = 200]

\* telegram_webhook.py 299-308: the text "/start".  It holds no greeting and
\* begins with "/", so neither the greeting (265-278) nor the cancel flow
\* (280-297) takes it.
tg_start(c) ==
  /\ SESSIONS' = reset_session(c)
  /\ kb' = [kb EXCEPT ![c] = Keyboard("menu", << >>)]
  /\ sent' = NoSent
  /\ post' = NoPost
  /\ suggested' = FALSE
  /\ reply' = StartReply(c)
  /\ UNCHANGED << RESERVATIONS, bookers, importer >>

\* telegram_webhook.py 331-334: the callback "menu:reservar".
callback_menu_reservar(c) ==
  /\ SESSIONS' = put_session(c, [get_session(c) EXCEPT !.step = "srv"])
  /\ kb' = [kb EXCEPT ![c] = Keyboard("servicios", << >>)]
  /\ sent' = NoSent
  /\ post' = NoPost
  /\ suggested' = FALSE
  /\ reply' = NoReply
  /\ UNCHANGED << RESERVATIONS, bookers, importer >>

\* The button "menu:reservar" of the menu the chat's message shows.
tg_menu_reservar(c) ==
  /\ kb[c].kind = "menu"
  /\ callback_menu_reservar(c)

\* telegram_webhook.py 395-400: a callback "srv:<id>".
callback_srv(c, service_id) ==
  /\ SESSIONS' = put_session(c, [get_session(c) EXCEPT !.service = service_id,
                                                        !.step = "pro"])
  /\ kb' = [kb EXCEPT ![c] = Keyboard("profesionales", << >>)]
  /\ sent' = NoSent
  /\ post' = NoPost
  /\ suggested' = FALSE
  /\ reply' = NoReply
  /\ UNCHANGED << RESERVATIONS, bookers, importer >>

\* A button "srv:<id>" of kb_servicios.
tg_srv(c, service_id) ==
  /\ kb[c].kind = "servicios"
  /\ callback_srv(c, service_id)

\* telegram_webhook.py 402-407: a callback "pro:<id>" or "pro:any".
callback_pro(c, pro) ==
  /\ SESSIONS' = put_session(c, [get_session(c) EXCEPT !.professional = pro,
                                                        !.step = "day"])
  /\ kb' = [kb EXCEPT ![c] = Keyboard("fechas", << >>)]
  /\ sent' = NoSent
  /\ post' = NoPost
  /\ suggested' = FALSE
  /\ reply' = NoReply
  /\ UNCHANGED << RESERVATIONS, bookers, importer >>

\* A button "pro:<id>" or "pro:any" of kb_profesionales, which lists every
\* professional of the catalog.
tg_pro(c, pro) ==
  /\ kb[c].kind = "profesionales"
  /\ callback_pro(c, pro)

\* telegram_webhook.py 409-420: a callback "day:<date>".
callback_day(c, d, net) ==
  LET sess  == [get_session(c) EXCEPT !.day = << d >>, !.step = "time"]
      slots == fetch_slots(IF sess.service # None THEN sess.service ELSE "corte",
                           d, sess.professional, net)
  IN /\ SESSIONS' = put_session(c, sess)
     /\ post' = NoPost
     /\ suggested' = FALSE
     /\ reply' = NoReply
     /\ UNCHANGED << RESERVATIONS, bookers, importer >>
     /\ IF net = "raise"
        THEN /\ UNCHANGED kb
             /\ sent' = NoSent
        ELSE IF slots = << >>
        THEN /\ kb' = [kb EXCEPT ![c] = Keyboard("fechas", << >>)]
             /\ sent' = [chat |-> c, hours |-> << >>, answered |-> net = "ok"]
        ELSE /\ kb' = [kb EXCEPT ![c] = Keyboard("horas", slots)]
             /\ sent' = [chat |-> c, hours |-> slots, answered |-> net = "ok"]

\* A button "day:<date>" of kb_fechas.
tg_day(c, d, net) ==
  /\ kb[c].kind = "fechas"
  /\ callback_day(c, d, net)

\* callback_time that starts the session afresh whether or not the
\* reservation was made.
callback_time_forgetting(c, hhmm, nets, net) ==
  LET sess   == [get_session(c) EXCEPT !.time = << hhmm >>]
      svc    == IF sess.service # None THEN sess.service ELSE "corte"
      pro    == sess.professional
      dy     == IF sess.day # << >> THEN sess.day[1] ELSE 0
      chosen == resolve_pro(svc, pro, dy, hhmm, nets)
      r      == backend_create(svc, chosen, Dt(dy, hhmm))
      call   == [chat |-> c, service_id |-> svc, professional |-> pro,
                 day |-> dy, hhmm |-> hhmm, chosen_pro |-> chosen,
                 answered |-> net = "ok" /\ \A p \in ProIds : nets[p] = "ok"]
  IN /\ Len(RESERVATIONS) < MaxRes
     /\ sent' = NoSent
     /\ suggested' = FALSE
     /\ reply' = NoReply
     /\ UNCHANGED << bookers, importer >>
     /\ IF chosen = None
        THEN /\ SESSIONS' = reset_session(c)
             /\ kb' = [kb EXCEPT ![c] = Keyboard("menu", << >>)]
             /\ post' = [call EXCEPT !.chosen_pro = None] @@ [status |-> 0]
             /\ UNCHANGED RESERVATIONS
        ELSE IF net = "raise"
        THEN /\ SESSIONS' = reset_session(c)
             /\ post' = call @@ [status |-> 0]
             /\ UNCHANGED << RESERVATIONS, kb >>
        ELSE IF net = "ok" /\ r.status = 200
        THEN /\ RESERVATIONS' = r.store
             /\ SESSIONS' = reset_session(c)
             /\ kb' = [kb EXCEPT ![c] = Keyboard("menu", << >>)]
             /\ post' = call @@ [status |-> 200]
        ELSE /\ SESSIONS' = reset_session(c)
             /\ kb' = [kb EXCEPT ![c] = Keyboard("menu", << >>)]
             /\ post' = call @@ [status |-> IF net = "ok" THEN r.status ELSE 500]
             /\ UNCHANGED RESERVATIONS

\* telegram_webhook.py 422-450 with create_reservation (223-248): a callback
\* "time:<hh:mm>", while the store has room for one more reservation.
callback_time(c, hhmm, nets, net) ==
  LET sess   == [get_session(c) EXCEPT !.time = << hhmm >>]
      svc    == IF sess.service # None THEN sess.service ELSE "corte"
      pro    == sess.professional
      dy     == IF sess.day # << >> THEN sess.day[1] ELSE 0
      chosen == resolve_pro(svc, pro, dy, hhmm, nets)
      r      == backend_create(svc, chosen, Dt(dy, hhmm))
      call   == [chat |-> c, service_id |-> svc, professional |-> pro,
                 day |-> dy, hhmm |-> hhmm, chosen_pro |-> chosen,
                 answered |-> net = "ok" /\ \A p \in ProIds : nets[p] = "ok"]
  IN /\ Len(RESERVATIONS) < MaxRes
     /\ sent' = NoSent
     /\ suggested' = FALSE
     /\ reply' = NoReply
     /\ UNCHANGED << bookers, importer >>
     /\ IF chosen = None
        THEN /\ SESSIONS' = put_session(c, sess)
             /\ kb' = [kb EXCEPT ![c] = Keyboard("menu", << >>)]
             /\ post' = [call EXCEPT !.chosen_pro = None] @@ [status |-> 0]
             /\ UNCHANGED RESERVATIONS
        ELSE IF net = "raise"
        THEN /\ SESSIONS' = put_session(c, sess)
             /\ post' = call @@ [status |-> 0]
             /\ UNCHANGED << RESERVATIONS, kb >>
        ELSE IF net = "ok" /\ r.status = 200
        THEN /\ RESERVATIONS' = r.store
             /\ SESSIONS' = reset_session(c)
             /\ kb' = [kb EXCEPT ![c] = Keyboard("menu", << >>)]
             /\ post' = call @@ [status |-> 200]
        ELSE /\ SESSIONS' = put_session(c, sess)
             /\ kb' = [kb EXCEPT ![c] = Keyboard("menu", << >>)]
             /\ post' = call @@ [status |-> IF net = "ok" THEN r.status ELSE 500]
             /\ UNCHANGED RESERVATIONS

\* A button "time:<hh:mm>" of the kb_horas the chat's message shows.
tg_time(c, hhmm, nets, net) ==
  /\ kb[c].kind = "horas"
  /\ hhmm \in elements(kb[c].hours)
  /\ callback_time(c, hhmm, nets, net)

\* telegram_webhook.py 367-370: the callback "menu:cancelar".
callback_menu_cancelar(c) ==
  /\ SESSIONS' = put_session(c, [get_session(c) EXCEPT !.step = "cancel"])
  /\ kb' = [kb EXCEPT ![c] = Keyboard("menu", << >>)]
  /\ sent' = NoSent
  /\ post' = NoPost
  /\ suggested' = FALSE
  /\ reply' = NoReply
  /\ UNCHANGED << RESERVATIONS, bookers, importer >>

\* The button "menu:cancelar" of the menu the chat's message shows.
tg_menu_cancelar(c) ==
  /\ kb[c].kind = "menu"
  /\ callback_menu_cancelar(c)

\* A text message is told apart by which of these words its lower-cased text
\* holds; it is not empty, does not begin with "/" and is no reservation id.
Words == {"hola", "horario", "precio"}

Reply(c, kind, words, services) ==
  [chat |-> c, kind |-> kind, words |-> words, status |-> 200,
   services |-> services]

\* The ids of SERVICES in catalog order, as the price list names them.
price_list == [i \in 1..Len(SERVICES) |-> SERVICES[i].id]

\* tg_text that starts the chat's session afresh when it answers.
tg_text_restart(c, words, net) ==
  LET sess == get_session(c)
  IN /\ sent' = NoSent
     /\ post' = NoPost
     /\ suggested' = FALSE
     /\ UNCHANGED << RESERVATIONS, bookers, importer >>
     /\ IF ~sess.welcomed /\ "hola" \in words
        THEN /\ SESSIONS' = put_session(c, [sess EXCEPT !.welcomed = TRUE])
             /\ kb' = [kb EXCEPT ![c] = Keyboard("menu", << >>)]
             /\ reply' = Reply(c, "welcome", words, << >>)
        ELSE IF sess.step = "cancel"
        THEN /\ SESSIONS' = put_session(c, sess)
             /\ kb' = [kb EXCEPT ![c] = Keyboard("menu", << >>)]
             /\ reply' = Reply(c, CASE net = "ok" -> "cancel_not_found"
                                    [] net = "500" -> "cancel_failed"
                                    [] OTHER -> "cancel_error",
                               words, << >>)
        ELSE IF "horario" \in words
        THEN /\ SESSIONS' = reset_session(c)
             /\ UNCHANGED kb
             /\ reply' = Reply(c, "horario", words, << >>)
        ELSE IF "precio" \in words
        THEN /\ SESSIONS' = reset_session(c)
             /\ UNCHANGED kb
             /\ reply' = Reply(c, "precios", words, price_list)
        ELSE /\ SESSIONS' = put_session(c, sess)
             /\ kb' = [kb EXCEPT ![c] = Keyboard("menu", << >>)]
             /\ reply' = Reply(c, "menu", words, << >>)

\* tg_text that sends the welcome and leaves the welcomed flag as it was.
tg_text_unmarked(c, words, net) ==
  LET sess == get_session(c)
  IN /\ sent' = NoSent
     /\ post' = NoPost
     /\ suggested' = FALSE
     /\ UNCHANGED << RESERVATIONS, bookers, importer >>
     /\ IF ~sess.welcomed /\ "hola" \in words
        THEN /\ SESSIONS' = put_session(c, sess)
             /\ kb' = [kb EXCEPT ![c] = Keyboard("menu", << >>)]
             /\ reply' = Reply(c, "welcome", words, << >>)
        ELSE IF sess.step = "cancel"
        THEN /\ SESSIONS' = put_session(c, sess)
             /\ kb' = [kb EXCEPT ![c] = Keyboard("menu", << >>)]
             /\ reply' = Reply(c, CASE net = "ok" -> "cancel_not_found"
                                    [] net = "500" -> "cancel_failed"
                                    [] OTHER -> "cancel_error",
                               words, << >>)
        ELSE IF "horario" \in words
        THEN /\ SESSIONS' = put_session(c, sess)
             /\ UNCHANGED kb
             /\ reply' = Reply(c, "horario", words, << >>)
        ELSE IF "precio" \in words
        THEN /\ SESSIONS' = put_session(c, sess)
             /\ UNCHANGED kb
             /\ reply' = Reply(c, "precios", words, price_list)
        ELSE /\ SESSIONS' = put_session(c, sess)
             /\ kb' = [kb EXCEPT ![c] = Keyboard("menu", << >>)]
             /\ reply' = Reply(c, "menu", words, << >>)

\* telegram_webhook.py 260-321: a text message other than "/start".  In the
\* cancel step the text is sent to the backend as the id to delete, which
\* knows no such reservation, fails, or does not answer.
tg_text(c, words, net) ==
  LET sess == get_session(c)
  IN /\ sent' = NoSent
     /\ post' = NoPost
     /\ suggested' = FALSE
     /\ UNCHANGED << RESERVATIONS, bookers, importer >>
     /\ IF ~sess.welcomed /\ "hola" \in words
        THEN /\ SESSIONS' = put_session(c, [sess EXCEPT !.welcomed = TRUE])
             /\ kb' = [kb EXCEPT ![c] = Keyboard("menu", << >>)]
             /\ reply' = Reply(c, "welcome", words, << >>)
        ELSE IF sess.step = "cancel"
        THEN /\ SESSIONS' = put_session(c, sess)
             /\ kb' = [kb EXCEPT ![c] = Keyboard("menu", << >>)]
             /\ reply' = Reply(c, CASE net = "ok" -> "cancel_not_found"
                                    [] net = "500" -> "cancel_failed"
                                    [] OTHER -> "cancel_error",
                               words, << >>)
        ELSE IF "horario" \in words
        THEN /\ SESSIONS' = put_session(c, sess)
             /\ UNCHANGED kb
             /\ reply' = Reply(c, "horario", words, << >>)
        ELSE IF "precio" \in words
        THEN /\ SESSIONS' = put_session(c, sess)
             /\ UNCHANGED kb
             /\ reply' = Reply(c, "precios", words, price_list)
        ELSE /\ SESSIONS' = put_session(c, sess)
             /\ kb' = [kb EXCEPT ![c] = Keyboard("menu", << >>)]
             /\ reply' = Reply(c, "menu", words, << >>)

TgStart == \E c \in Chats : tg_start(c)
TgMenuReservar == \E c \in Chats : tg_menu_reservar(c)
TgSrv == \E c \in Chats, service_id \in ServiceIds : tg_srv(c, service_id)
TgPro == \E c \in Chats, pro \in ProIds \cup {"any"} : tg_pro(c, pro)
TgDay == \E c \in Chats, d \in Days, net \in Net : tg_day(c, d, net)
TgTime == \E c \in Chats, hhmm \in elements(DUMMY_HOURS) \cup Times,
             nets \in [ProIds -> Net], net \in Net : tg_time(c, hhmm, nets, net)

NextTg == TgStart \/ TgMenuReservar \/ TgSrv \/ TgPro \/ TgDay \/ TgTime

SpecTg == Init /\ [][NextTg]_vars

TgMenuCancelar == \E c \in Chats : tg_menu_cancelar(c)
TgText == \E c \in Chats, words \in SUBSET Words, net \in Net :
            tg_text(c, words, net)

\* The chat with its text messages, up to the choice of a day.
NextTxt ==
  TgStart \/ TgMenuReservar \/ TgSrv \/ TgPro \/ TgDay \/ TgMenuCancelar
    \/ TgText

SpecTxt == Init /\ [][NextTxt]_vars

\* ------------------------------------------- the webhook, whatever arrives
\* telegram_webhook.py 23: the secret the webhook is configured with.
TELEGRAM_WEBHOOK_SECRET == "secret"

\* The X-Telegram-Bot-Api-Secret-Token header of an update: missing, the
\* secret, or something else.
Tokens == {None, "secret", "guess"}

\* _check_secret that lets an update without the header through.
_check_secret_if_sent(token) ==
  ( TELEGRAM_WEBHOOK_SECRET # "" /\ token # None )
    => token = TELEGRAM_WEBHOOK_SECRET

\* telegram_webhook.py 171-176: TRUE when it returns, FALSE when it raises
\* HTTPException(401).
_check_secret(token) ==
  TELEGRAM_WEBHOOK_SECRET # "" => token = TELEGRAM_WEBHOOK_SECRET

\* The answer to an update that was turned away.
Unauthorized == [NoReply EXCEPT !.kind = "unauthorized", !.status = 401]

\* telegram_webhook.py 254-257: the secret is checked first; handler is what
\* lines 257-457 do with the update's body.
telegram_webhook(token, handler) ==
  IF _check_secret(token)
  THEN handler
  ELSE /\ reply' = Unauthorized
       /\ sent' = NoSent
       /\ post' = NoPost
       /\ suggested' = FALSE
       /\ UNCHANGED << RESERVATIONS, SESSIONS, kb, bookers, importer >>

\* DELETE /reservations/{id} of the backend: cancel(id).
backend_cancel(rid) ==
  LET r == cancel_reservation(RESERVATIONS, rid)
  IN [status |-> IF r.ok THEN 200 ELSE 404, store |-> r.store]

\* The answer to a text taken as the id of the reservation to cancel.
CancelReply(c, kind, rid) == Reply(c, kind, {}, << >>) @@ [rid |-> rid]

\* tg_text_id that starts the session afresh whatever the backend answers.
tg_text_id_always_reset(c, rid, net) ==
  LET sess == get_session(c)
      r    == backend_cancel(rid)
  IN /\ sent' = NoSent
     /\ post' = NoPost
     /\ suggested' = FALSE
     /\ kb' = [kb EXCEPT ![c] = Keyboard("menu", << >>)]
     /\ UNCHANGED << bookers, importer >>
     /\ IF sess.step # "cancel"
        THEN /\ SESSIONS' = put_session(c, sess)
             /\ reply' = Reply(c, "menu", {}, << >>)
             /\ UNCHANGED RESERVATIONS
        ELSE IF net = "ok" /\ r.status = 200
        THEN /\ RESERVATIONS' = r.store
             /\ SESSIONS' = reset_session(c)
             /\ reply' = CancelReply(c, "cancelled", rid)
        ELSE /\ SESSIONS' = reset_session(c)
             /\ reply' = CancelReply(c, CASE net = "raise" -> "cancel_error"
                                          [] net = "ok" -> "cancel_not_found"
                                          [] OTHER -> "cancel_failed", rid)
             /\ UNCHANGED RESERVATIONS

\* telegram_webhook.py 260-321: a text message that is the id of a
\* reservation, made now or earlier.  It holds no greeting, "horario" or
\* "precio" and is not "/start": outside the cancel step the menu answers it
\* (319-320), in the cancel step it is the id to delete (280-297).
tg_text_id(c, rid, net) ==
  LET sess == get_session(c)
      r    == backend_cancel(rid)
  IN /\ sent' = NoSent
     /\ post' = NoPost
     /\ suggested' = FALSE
     /\ kb' = [kb EXCEPT ![c] = Keyboard("menu", << >>)]
     /\ UNCHANGED << bookers, importer >>
     /\ IF sess.step # "cancel"
        THEN /\ SESSIONS' = put_session(c, sess)
             /\ reply' = Reply(c, "menu", {}, << >>)
             /\ UNCHANGED RESERVATIONS
        ELSE IF net = "ok" /\ r.status = 200
        THEN /\ RESERVATIONS' = r.store
             /\ SESSIONS' = reset_session(c)
             /\ reply' = CancelReply(c, "cancelled", rid)
        ELSE /\ SESSIONS' = put_session(c, sess)
             /\ reply' = CancelReply(c, CASE net = "raise" -> "cancel_error"
                                          [] net = "ok" -> "cancel_not_found"
                                          [] OTHER -> "cancel_failed", rid)
             /\ UNCHANGED RESERVATIONS

\* telegram_webhook.py 376-379: the callback "back:menu".
callback_back_menu(c) ==
  /\ SESSIONS' = reset_session(c)
  /\ kb' = [kb EXCEPT ![c] = Keyboard("menu", << >>)]
  /\ sent' = NoSent
  /\ post' = NoPost
  /\ suggested' = FALSE
  /\ reply' = NoReply
  /\ UNCHANGED << RESERVATIONS, bookers, importer >>

\* telegram_webhook.py 380-393: the callbacks "back:srv", "back:pro" and
\* "back:day".
callback_back(c, step) ==
  /\ SESSIONS' = put_session(c, [get_session(c) EXCEPT !.step = step])
  /\ kb' = [kb EXCEPT ![c] =
              Keyboard(CASE step = "srv" -> "servicios"
                         [] step = "pro" -> "profesionales"
                         [] OTHER -> "fechas", << >>)]
  /\ sent' = NoSent
  /\ post' = NoPost
  /\ suggested' = FALSE
  /\ reply' = NoReply
  /\ UNCHANGED << RESERVATIONS, bookers, importer >>

\* telegram_webhook.py 336-365, 372-374 and 452-454: the callbacks
\* "menu:precios", "menu:horario", "menu:misreservas", "menu:humano" and any
\* callback the handler does not know: the menu again, the session as made
\* or found by get_session.
callback_other(c) ==
  /\ SESSIONS' = put_session(c, get_session(c))
  /\ kb' = [kb EXCEPT ![c] = Keyboard("menu", << >>)]
  /\ sent' = NoSent
  /\ post' = NoPost
  /\ suggested' = FALSE
  /\ reply' = NoReply
  /\ UNCHANGED << RESERVATIONS, bookers, importer >>

\* What the updates of this specification carry.  A callback is handled in
\* whatever step the session is: the buttons of a message stay on the screen
\* when a text is answered with a new message.
HookServices == {"tinte"}
HookPros == {"ana"}
HookDays == {1}
HookTimes == {600}
HookIds == {ResId(1)}

HookStart == \E tok \in Tokens, c \in Chats : telegram_webhook(tok, tg_start(c))
HookText ==
  \E tok \in Tokens, c \in Chats, words \in SUBSET Words, net \in Net :
    telegram_webhook(tok, tg_text(c, words, net))
HookTextId ==
  \E tok \in Tokens, c \in Chats, rid \in HookIds, net \in Net :
    telegram_webhook(tok, tg_text_id(c, rid, net))
HookMenuReservar ==
  \E tok \in Tokens, c \in Chats :
    telegram_webhook(tok, callback_menu_reservar(c))
HookMenuCancelar ==
  \E tok \in Tokens, c \in Chats :
    telegram_webhook(tok, callback_menu_cancelar(c))
HookBackMenu ==
  \E tok \in Tokens, c \in Chats : telegram_webhook(tok, callback_back_menu(c))
HookBack ==
  \E tok \in Tokens, c \in Chats, step \in {"srv", "pro", "day"} :
    telegram_webhook(tok, callback_back(c, step))
HookOther ==
  \E tok \in Tokens, c \in Chats : telegram_webhook(tok, callback_other(c))
HookSrv ==
  \E tok \in Tokens, c \in Chats, service_id \in HookServices :
    telegram_webhook(tok, callback_srv(c, service_id))
HookPro ==
  \E tok \in Tokens, c \in Chats, pro \in HookPros :
    telegram_webhook(tok, callback_pro(c, pro))
HookDay ==
  \E tok \in Tokens, c \in Chats, d \in HookDays, net \in Net :
    telegram_webhook(tok, callback_day(c, d, net))
HookTime ==
  \E tok \in Tokens, c \in Chats, hhmm \in HookTimes, net \in Net :
    telegram_webhook(tok, callback_time(c, hhmm, [p \in ProIds |-> net], net))

NextHook ==
  HookStart \/ HookText \/ HookTextId \/ HookMenuReservar \/ HookMenuCancelar
    \/ HookBackMenu \/ HookBack \/ HookOther \/ HookSrv \/ HookPro \/ HookDay
    \/ HookTime

SpecHook == Init /\ [][NextHook]_vars

\* ------------------------------------------------- two chats, interleaved
\* The updates of two chats, handled one at a time in any order: each chat
\* restarts, walks the booking flow on its latest keyboard with the backend
\* answering, and greets.
PairStart == \E c \in TwoChats : tg_start(c)
PairMenuReservar == \E c \in TwoChats : tg_menu_reservar(c)
PairSrv == \E c \in TwoChats, service_id \in ServiceIds : tg_srv(c, service_id)
PairPro == \E c \in TwoChats : tg_pro(c, "ana")
PairDay == \E c \in TwoChats : tg_day(c, 0, "ok")
PairTime ==
  \E c \in TwoChats : tg_time(c, 600, [p \in ProIds |-> "ok"], "ok")
PairText == \E c \in TwoChats : tg_text(c, {"hola"}, "ok")

NextPair ==
  PairStart \/ PairMenuReservar \/ PairSrv \/ PairPro \/ PairDay \/ PairTime
    \/ PairText

SpecPair == Init /\ [][NextPair]_vars

\* ------------------------------------------- the Google Calendar importer
\* prueba.py: the calendar commands and sync-from-gcal.  An event is
\*   [id, summary, start, end, private]
\* where summary is the set of service keywords its lower-cased text holds,
\* start and end are what the API returns (a dateTime, or a date for an
\* all-day event) and private is extendedProperties.private, its absent
\* entries None.
EventIds == {"e1", "e2"}
EventIdOrder == << "e1", "e2" >>

\* data.PRO_CALENDAR: professional -> calendar, in dictionary order.
PRO_CALENDAR ==
  << [pro_id |-> "ana", cal_id |-> "cal_ana"],
     [pro_id |-> "luis", cal_id |-> "cal_luis"] >>

DateTime(dt) == [kind |-> "dateTime", v |-> dt]
AllDay(d) == [kind |-> "date", v |-> d]

NoPrivate ==
  [reservation_id |-> None, service_id |-> None, professional_id |-> None]

\* What the calendar commands are given here.
Intervals == { << Dt(0, 600), Dt(0, 630) >>, << Dt(0, 630), Dt(0, 690) >> }
Summaries == { {}, {"tinte", "corte"} }
Privates ==
  { NoPrivate,
    [NoPrivate EXCEPT !.reservation_id = "r1"],
    [NoPrivate EXCEPT !.service_id = "tinte", !.professional_id = "ana"] }

\* Lines 351-356: a date alone is the start of that day.
_parse_iso_to_dt(s) == IF s.kind = "dateTime" THEN s.v ELSE Dt(s.v, 0)

\* _detect_service looking for corte first.
_detect_service_corte_first(summary, default_sid) ==
  IF summary = {} THEN default_sid
  ELSE IF "corte" \in summary THEN "corte"
  ELSE IF "barba" \in summary THEN "barba"
  ELSE IF "tinte" \in summary THEN "tinte"
  ELSE default_sid

\* Lines 358-368: the first keyword found, in the order tinte, barba, corte.
_detect_service(summary, default_sid) ==
  IF summary = {} THEN default_sid
  ELSE IF "tinte" \in summary THEN "tinte"
  ELSE IF "barba" \in summary THEN "barba"
  ELSE IF "corte" \in summary THEN "corte"
  ELSE default_sid

\* Line 431, f"gcal:{e['id']}".
gcal_key(event_id) ==
  CASE event_id = "e1" -> "gcal:e1"
    [] event_id = "e2" -> "gcal:e2"

\* event_key with the metadata's reservation_id left unread.
event_key_id_only(e) == gcal_key(e.id)

\* Line 431: the key under which an event is stored.
event_key(e) ==
  IF e.private.reservation_id # None THEN e.private.reservation_id
  ELSE gcal_key(e.id)

event_rank(event_id) ==
  CHOOSE k \in 1..Len(EventIdOrder) : EventIdOrder[k] = event_id

\* orderBy="startTime" (line 234); events starting together come by id.
event_before(a, b) ==
  LET sa == _parse_iso_to_dt(a.start)
      sb == _parse_iso_to_dt(b.start)
  IN sa < sb \/ (sa = sb /\ event_rank(a.id) < event_rank(b.id))

RECURSIVE in_start_order(_)
in_start_order(S) ==
  IF S = {} THEN << >>
  ELSE LET first == CHOOSE e \in S : \A o \in S \ {e} : event_before(e, o)
       IN << first >> \o in_start_order(S \ {first})

\* Lines 224-250: the events of a calendar between the start and the end of
\* a day, in start order.
list_events(gcal, calendar_id, on_day) ==
  in_start_order({ e \in gcal[calendar_id] :
                     /\ _parse_iso_to_dt(e.end) > Dt(on_day, 0)
                     /\ _parse_iso_to_dt(e.start) < Dt(on_day + 1, 0) })

\* sess.get(ReservationDB, rid): the position of the row, 0 when there is none.
db_index(db, rid) ==
  IF \E i \in 1..Len(db) : db[i].id = rid
  THEN CHOOSE i \in 1..Len(db) : db[i].id = rid
  ELSE 0

\* upsert_event that counts every event found in the table as an update.
upsert_event_always_counts(acc, e, calendar_id, pro_id, args) ==
  LET meta == e.private
      rid == event_key(e)
      service_id ==
        IF meta.service_id # None THEN meta.service_id
        ELSE _detect_service(e.summary, args.default_service)
      pro == IF meta.professional_id # None THEN meta.professional_id
             ELSE IF pro_id # "" THEN pro_id
             ELSE args.professional
      i == db_index(acc.db, rid)
      row == [id |-> rid, service_id |-> service_id, professional_id |-> pro,
              start |-> _parse_iso_to_dt(e.start),
              end |-> _parse_iso_to_dt(e.end),
              google_event_id |-> e.id, google_calendar_id |-> calendar_id]
  IN IF pro = "" THEN acc
     ELSE IF i = 0
     THEN [acc EXCEPT !.db = Append(@, row), !.inserted = @ + 1]
     ELSE [acc EXCEPT !.db = [@ EXCEPT ![i] = row], !.updated = @ + 1]

\* upsert_event that leaves out a new event whose professional is busy then.
upsert_event_unless_busy(acc, e, calendar_id, pro_id, args) ==
  LET start_dt == _parse_iso_to_dt(e.start)
      end_dt == _parse_iso_to_dt(e.end)
      meta == e.private
      rid == event_key(e)
      service_id ==
        IF meta.service_id # None THEN meta.service_id
        ELSE _detect_service(e.summary, args.default_service)
      pro == IF meta.professional_id # None THEN meta.professional_id
             ELSE IF pro_id # "" THEN pro_id
             ELSE args.professional
      i == db_index(acc.db, rid)
      row == [id |-> rid, service_id |-> service_id, professional_id |-> pro,
              start |-> start_dt, end |-> end_dt,
              google_event_id |-> e.id, google_calendar_id |-> calendar_id]
  IN IF pro = "" THEN acc
     ELSE IF i = 0
     THEN IF is_free(acc.db, pro, start_dt, end_dt)
          THEN [acc EXCEPT !.db = Append(@, row), !.inserted = @ + 1]
          ELSE acc
     ELSE IF acc.db[i] # row
     THEN [acc EXCEPT !.db = [@ EXCEPT ![i] = row], !.updated = @ + 1]
     ELSE acc

\* upsert_event that takes the scope's professional before the metadata's.
upsert_event_scope_first(acc, e, calendar_id, pro_id, args) ==
  LET start_dt == _parse_iso_to_dt(e.start)
      end_dt == _parse_iso_to_dt(e.end)
      meta == e.private
      rid == event_key(e)
      service_id ==
        IF meta.service_id # None THEN meta.service_id
        ELSE _detect_service(e.summary, args.default_service)
      pro == IF pro_id # "" THEN pro_id
             ELSE IF meta.professional_id # None THEN meta.professional_id
             ELSE args.professional
      i == db_index(acc.db, rid)
      row == [id |-> rid, service_id |-> service_id, professional_id |-> pro,
              start |-> start_dt, end |-> end_dt,
              google_event_id |-> e.id, google_calendar_id |-> calendar_id]
  IN IF pro = "" THEN acc
     ELSE IF i = 0
     THEN [acc EXCEPT !.db = Append(@, row), !.inserted = @ + 1]
     ELSE IF acc.db[i] # row
     THEN [acc EXCEPT !.db = [@ EXCEPT ![i] = row], !.updated = @ + 1]
     ELSE acc

\* Lines 427-470, one event.  acc is [db, inserted, updated].
upsert_event(acc, e, calendar_id, pro_id, args) ==
  LET start_dt == _parse_iso_to_dt(e.start)
      end_dt == _parse_iso_to_dt(e.end)
      meta == e.private
      rid == event_key(e)
      service_id ==
        IF meta.service_id # None THEN meta.service_id
        ELSE _detect_service(e.summary, args.default_service)
      pro == IF meta.professional_id # None THEN meta.professional_id
             ELSE IF pro_id # "" THEN pro_id
             ELSE args.professional
      i == db_index(acc.db, rid)
      row == [id |-> rid, service_id |-> service_id, professional_id |-> pro,
              start |-> start_dt, end |-> end_dt,
              google_event_id |-> e.id, google_calendar_id |-> calendar_id]
  IN IF pro = "" THEN acc
     ELSE IF i = 0
     THEN [acc EXCEPT !.db = Append(@, row), !.inserted = @ + 1]
     ELSE IF acc.db[i] # row
     THEN [acc EXCEPT !.db = [@ EXCEPT ![i] = row], !.updated = @ + 1]
     ELSE acc

RECURSIVE upsert_list(_, _, _, _, _, _)
upsert_list(acc, evs, k, calendar_id, pro_id, args) ==
  IF k > Len(evs) THEN acc
  ELSE upsert_list(upsert_event(acc, evs[k], calendar_id, pro_id, args),
                   evs, k + 1, calendar_id, pro_id, args)

\* Lines 421-475: every day of the range, every event of the day.
\* What can go wrong during a run: the events of a calendar cannot be
\* fetched (the exception of list_events, line 426), or the rows written for
\* a calendar cannot be committed (the exception of sess.commit, line 471).
\* Neither is caught: the session is left, what it had not committed is
\* dropped, and the command ends there.
NoFault == [kind |-> "none", cal |-> ""]
Faults == {NoFault} \cup [kind : {"fetch", "commit"}, cal : CalendarIds]

RECURSIVE _upsert_events(_, _, _, _, _, _)
_upsert_events(acc, gcal, calendar_id, pro_id, args, k) ==
  IF k > Len(args.days) \/ acc.crashed THEN acc
  ELSE IF acc.fault.kind = "fetch" /\ acc.fault.cal = calendar_id
  THEN [acc EXCEPT !.crashed = TRUE]
  ELSE LET day == upsert_list(acc,
                              list_events(gcal, calendar_id, args.days[k]),
                              1, calendar_id, pro_id, args)
       IN IF /\ acc.fault.kind = "commit" /\ acc.fault.cal = calendar_id
             /\ day.db # acc.db
          THEN [acc EXCEPT !.crashed = TRUE]
          ELSE _upsert_events(day, gcal, calendar_id, pro_id, args, k + 1)

RECURSIVE by_professional(_, _, _, _)
by_professional(acc, gcal, args, k) ==
  IF k > Len(PRO_CALENDAR) \/ acc.crashed THEN acc
  ELSE by_professional(
         _upsert_events(acc, gcal, PRO_CALENDAR[k].cal_id,
                        PRO_CALENDAR[k].pro_id, args, 1),
         gcal, args, k + 1)

\* Lines 477-492: the whole run and its counts.
sync_run(db, gcal, args, fault) ==
  LET acc == [db |-> db, inserted |-> 0, updated |-> 0,
              fault |-> fault, crashed |-> FALSE]
  IN IF args.by_professional THEN by_professional(acc, gcal, args, 1)
     ELSE _upsert_events(acc, gcal, args.calendar, args.professional, args, 1)

\* The command lines tried: --by-professional, or --calendar cal_ana with
\* and without --professional luis; one day, the default service corte.
SyncArgs ==
  { a \in [by_professional : BOOLEAN, calendar : {"cal_ana", ""},
           professional : {"", "luis"}, default_service : {"corte"},
           days : { << 0 >> }] :
      a.by_professional <=> a.calendar = "" }

\* sync_from_gcal that empties the table before it imports.
sync_from_gcal_purging(args, fault) ==
  LET out == sync_run(<< >>, GCAL, args, fault)
  IN /\ DB' = out.db
     /\ report' = IF out.crashed
                  THEN [ran |-> FALSE, crashed |-> TRUE, args |-> args,
                        fault |-> fault]
                  ELSE [ran |-> TRUE, crashed |-> FALSE, args |-> args,
                        inserted |-> out.inserted, updated |-> out.updated,
                        rerun |-> report.ran /\ report.args = args]
     /\ UNCHANGED << GCAL, RESERVATIONS, suggested, bookers, telegram >>

\* sync-from-gcal, lines 370-492.
sync_from_gcal(args, fault) ==
  LET out == sync_run(DB, GCAL, args, fault)
  IN /\ DB' = out.db
     /\ report' = IF out.crashed
                  THEN [ran |-> FALSE, crashed |-> TRUE, args |-> args,
                        fault |-> fault]
                  ELSE [ran |-> TRUE, crashed |-> FALSE, args |-> args,
                        inserted |-> out.inserted, updated |-> out.updated,
                        rerun |-> report.ran /\ report.args = args]
     /\ UNCHANGED << GCAL, RESERVATIONS, suggested, bookers, telegram >>

used_event_ids == { e.id : e \in UNION { GCAL[c] : c \in CalendarIds } }

\* create-event, lines 156-171; the calendar names the new event.
create_event(calendar_id, event_id, start, end, summary, private) ==
  /\ event_id \notin used_event_ids
  /\ GCAL' = [GCAL EXCEPT ![calendar_id] =
                @ \cup {[id |-> event_id, summary |-> summary,
                         start |-> DateTime(start), end |-> DateTime(end),
                         private |-> private]}]
  /\ report' = NoReport
  /\ UNCHANGED << DB, RESERVATIONS, suggested, bookers, telegram >>

\* patch-event, lines 173-183: new dates for an event of the calendar.
patch_event(calendar_id, event_id, start, end) ==
  /\ \E e \in GCAL[calendar_id] :
       /\ e.id = event_id
       /\ GCAL' = [GCAL EXCEPT ![calendar_id] =
                     (@ \ {e}) \cup {[e EXCEPT !.start = DateTime(start),
                                               !.end = DateTime(end)]}]
  /\ report' = NoReport
  /\ UNCHANGED << DB, RESERVATIONS, suggested, bookers, telegram >>

\* Events are created with a summary or with --meta, not with both.
CreateEvent ==
  \E calendar_id \in CalendarIds, event_id \in EventIds, span \in Intervals,
     summary \in Summaries, private \in Privates :
    /\ summary = {} \/ private = NoPrivate
    /\ create_event(calendar_id, event_id, span[1], span[2], summary, private)

PatchEvent ==
  \E calendar_id \in CalendarIds, event_id \in EventIds, span \in Intervals :
    patch_event(calendar_id, event_id, span[1], span[2])

\* A fault is tried on a calendar the run reads.
SyncFromGcal ==
  \E args \in SyncArgs, fault \in Faults :
    /\ fault = NoFault \/ args.by_professional \/ fault.cal = args.calendar
    /\ sync_from_gcal(args, fault)

NextImp == CreateEvent \/ PatchEvent \/ SyncFromGcal

SpecImp == Init /\ [][NextImp]_vars

\* ----------------------------------------------------------------- checks
TypeOK ==
  /\ Len(RESERVATIONS) <= MaxRes
  /\ \A i \in 1..Len(RESERVATIONS) :
       /\ RESERVATIONS[i].service_id \in ServiceIds
       /\ RESERVATIONS[i].professional_id \in ProIds

Idx == 1..Len(RESERVATIONS)

\* The professionals a slot query may name for a service.
offering(service_id) == { p \in ProIds : authorized(p, service_id) }

\* C1: with one user at the CLI menu booking, cancelling and rescheduling (no
\* import), no two reservations of one professional have overlapping
\* half-open intervals [start, end).
C1_NoOverlap ==
  \A i, j \in Idx :
    (i < j /\ RESERVATIONS[i].professional_id = RESERVATIONS[j].professional_id)
      => \/ RESERVATIONS[i].end <= RESERVATIONS[j].start
         \/ RESERVATIONS[j].end <= RESERVATIONS[i].start

\* Two reservations of one professional back to back: one ends at the minute
\* the other starts.
C1_Witness ==
  \E i, j \in Idx :
    /\ RESERVATIONS[i].professional_id = RESERVATIONS[j].professional_id
    /\ RESERVATIONS[i].end = RESERVATIONS[j].start

\* C2: create re-validates at commit time: a booking flow that reaches its
\* commit for a slot of a chosen professional P which by then overlaps a
\* reservation of P fails with ConflictError and leaves the store unchanged
\* (so of two flows that both read the slot as free, exactly one succeeds).
C2_CreateRevalidatesAtCommit ==
  [][ \A b \in Bookers :
        ( /\ pc[b] = "choosing"
          /\ pc'[b] = "menu"
          /\ sel[b].pro_id # None
          /\ ~is_free(RESERVATIONS, sel[b].pro_id, sel[b].start_dt,
                      sel[b].start_dt + duration_min(sel[b].srv_id)) )
        => ( /\ RESERVATIONS' = RESERVATIONS
             /\ result'[b] = "ConflictError" ) ]_vars

\* C3: under any interleaving of booking flows, cancels and reschedules, the
\* overlap check and the commit are one atomic step: no professional ever has
\* two reservations that share a minute.
C3_AtomicCheckAndCommit ==
  \A p \in ProIds :
    \A i, j \in Idx :
      ( /\ i # j
        /\ RESERVATIONS[i].professional_id = p
        /\ RESERVATIONS[j].professional_id = p )
      => ~overlaps(RESERVATIONS[i].start, RESERVATIONS[i].end,
                   RESERVATIONS[j].start, RESERVATIONS[j].end)

\* C4: for every service S, day D and professional P offering S, no start
\* time t returned by the slot query for (S, D, P) is such that
\* [t, t + duration(S)) overlaps a reservation of P.
C4_SlotsOverlapNoReservation ==
  \A service_id \in ServiceIds, d \in Days :
    \A p \in offering(service_id) :
      LET slots == action_show_slots(service_id, d, p)
      IN \A k \in 1..Len(slots) : \A i \in Idx :
           RESERVATIONS[i].professional_id = p =>
             ~( /\ slots[k] < RESERVATIONS[i].end
                /\ RESERVATIONS[i].start < slots[k] + duration_min(service_id) )

\* A professional with a reservation on a day where the query still returns
\* slots for him, and another professional is free at the reserved time.
C4_Witness ==
  \E i \in Idx :
    LET r == RESERVATIONS[i]
    IN /\ action_show_slots(r.service_id, DayOf(r.start), r.professional_id) # << >>
       /\ r.start \in elements(action_show_slots(r.service_id, DayOf(r.start), None))

\* C5: after every successful create(S, P, t), the slot query for
\* (S, day(t), P) on the new store does not contain t.
C5_BookedSlotIsGone ==
  [][ Len(RESERVATIONS') = Len(RESERVATIONS) + 1 =>
        LET r == RESERVATIONS'[Len(RESERVATIONS')]
        IN r.start \notin
             elements(available_slots(RESERVATIONS', r.service_id,
                                      DayOf(r.start), r.professional_id)) ]_vars

\* A booking has just been appended and its professional still has slots left
\* that day.
C5_Witness ==
  /\ RESERVATIONS # << >>
  /\ LET r == RESERVATIONS[Len(RESERVATIONS)]
     IN /\ r.id = ResId(Len(RESERVATIONS))
        /\ find_available_slots(r.service_id, DayOf(r.start), r.professional_id) # << >>

\* The candidate starts of a day for a duration: each window's start plus a
\* whole number of durations, the slot ending inside the window.
candidates(d, dur) ==
  LET W    == BUSINESS_HOURS(d)
      fits == { wn \in (1..Len(W)) \X (0..(1440 \div dur)) :
                  W[wn[1]][1] + (wn[2] + 1) * dur <= W[wn[1]][2] }
  IN { Dt(d, W[wn[1]][1] + wn[2] * dur) : wn \in fits }

ascending(seq) == \A a, b \in 1..Len(seq) : a < b => seq[a] < seq[b]

\* The reservations of p that touch day d are exactly one, [from, to).
only_reservation(p, d, from, to) ==
  /\ \E i \in Idx : /\ RESERVATIONS[i].professional_id = p
                    /\ RESERVATIONS[i].start = Dt(d, from)
                    /\ RESERVATIONS[i].end = Dt(d, to)
  /\ \A i, j \in Idx :
       ( /\ RESERVATIONS[i].professional_id = p
         /\ RESERVATIONS[j].professional_id = p
         /\ DayOf(RESERVATIONS[i].start) = d
         /\ DayOf(RESERVATIONS[j].start) = d ) => i = j

\* C6: for a given professional the slot query returns, in ascending order,
\* exactly the candidates of the grid stepped by the service duration from
\* each open window's start whose slot lies inside that window and overlaps
\* no reservation of the professional; with a 30-minute service, the window
\* 10:00-12:00 and one reservation 10:00-10:30 it returns
\* [10:30, 11:00, 11:30].
C6_SlotsAreTheFreeCandidates ==
  \A service_id \in ServiceIds, d \in Days :
    \A p \in offering(service_id) :
      LET slots == action_show_slots(service_id, d, p)
          dur   == duration_min(service_id)
      IN /\ ascending(slots)
         /\ elements(slots) =
              { t \in candidates(d, dur) :
                  \A i \in Idx :
                    RESERVATIONS[i].professional_id = p =>
                      \/ RESERVATIONS[i].end <= t
                      \/ t + dur <= RESERVATIONS[i].start }
         /\ ( /\ service_id = "corte"
              /\ d = 0
              /\ only_reservation(p, 0, 600, 630) )
            => slots = << Dt(0, 630), Dt(0, 660), Dt(0, 690) >>

\* ana's only reservation of day 0 is 10:00-10:30, and she has one on day 1,
\* whose second window still has a slot.
C6_Witness ==
  /\ only_reservation("ana", 0, 600, 630)
  /\ action_show_slots("corte", 1, "ana") = << Dt(1, 960) >>

\* C7: with no professional given, the slot query returns the union of the
\* slots of the professionals offering the service, each time once, in
\* ascending order; a time is in it as soon as one of them is free.
C7_NoProfessionalIsTheUnion ==
  \A service_id \in ServiceIds, d \in Days :
    LET slots == action_show_slots(service_id, d, None)
    IN /\ ascending(slots)
       /\ elements(slots) =
            UNION { elements(action_show_slots(service_id, d, p)) :
                      p \in offering(service_id) }

\* ana has no tinte slot left on day 1, luis has, and the query without a
\* professional still lists 10:00 of that day.
C7_Witness ==
  /\ action_show_slots("tinte", 1, "ana") = << >>
  /\ Dt(1, 600) \in elements(action_show_slots("tinte", 1, "luis"))
  /\ Dt(1, 600) \in elements(action_show_slots("tinte", 1, None))

\* The first professional from position k of the catalog that offers the
\* service and has t among its own slots over the store.
RECURSIVE first_with_slot(_, _, _, _, _)
first_with_slot(store, service_id, d, t, k) ==
  IF k > Len(PROS) THEN None
  ELSE IF /\ service_id \in PROS[k].services
          /\ t \in elements(pro_slots(store, service_id, d, PROS[k].id))
       THEN PROS[k].id
       ELSE first_with_slot(store, service_id, d, t, k + 1)

\* The store the time handler just run read: the reservation it made, if it
\* made one, is the last of the list.
store_before_post ==
  IF post.status = 200
  THEN SubSeq(RESERVATIONS, 1, Len(RESERVATIONS) - 1)
  ELSE RESERVATIONS

\* C8: when no professional was chosen and the time t picked is in the union
\* of the slots of the professionals offering the service, the professional
\* the booking is made for is the first one in catalog order that offers the
\* service and has t among its own slots, and there is always one.
C8_AutoAssignFirstFreeInCatalogOrder ==
  ( /\ post # NoPost
    /\ post.answered
    /\ post.professional \in {None, "any"} ) =>
    LET pre == store_before_post
        t   == Dt(post.day, post.hhmm)
    IN t \in elements(available_slots(pre, post.service_id, post.day, None))
         => /\ post.chosen_pro # None
            /\ post.chosen_pro =
                 first_with_slot(pre, post.service_id, post.day, t, 1)

\* C9: when the day has no free slot for the service and professional asked
\* for (closed, or every candidate booked), the slot query returns the empty
\* list as it is, and the booking flow that receives it offers no hour.
C9_NoSlotNoOffer ==
  /\ \A service_id \in ServiceIds, d \in Days :
       \A p \in offering(service_id) \cup {None} :
         find_available_slots(service_id, d, p) = << >>
           => action_show_slots(service_id, d, p) = << >>
  /\ ( sent.chat \in Chats /\ sent.answered ) =>
       LET sess == get_session(sent.chat)
           svc  == IF sess.service # None THEN sess.service ELSE "corte"
           pro  == IF sess.professional \in ProIds
                   THEN sess.professional ELSE None
       IN ( /\ pro \in offering(svc) \cup {None}
            /\ sess.day # << >>
            /\ available_slots(RESERVATIONS, svc, sess.day[1], pro) = << >> )
          => /\ sent.hours = << >>
             /\ kb[sent.chat].kind # "horas"

C11_CancelRemovesExactlyThatOne ==
  [][ /\ \A n \in 0..(MaxRes + 1) :
           LET rid == ResId(n)
               res == cancel_reservation(RESERVATIONS, rid)
           IN IF \E i \in Idx : RESERVATIONS[i].id = rid
              THEN /\ res.ok
                   /\ \E i \in Idx : /\ RESERVATIONS[i].id = rid
                                     /\ res.store = without(RESERVATIONS, i)
              ELSE /\ ~res.ok
                   /\ res.store = RESERVATIONS
      /\ Len(RESERVATIONS') < Len(RESERVATIONS)
           => \E i \in Idx : RESERVATIONS' = without(RESERVATIONS, i) ]_vars

\* The first of two reservations was cancelled: the one left is the second.
C11_Witness ==
  /\ Len(RESERVATIONS) = 1
  /\ RESERVATIONS[1].id = ResId(2)

\* The requests a reschedule of the entry at idx may carry.
Requests == Opt(Days) \X Opt(Times) \X (ProIds \cup {None})

\* What a request asks of entry i of the store: the professional and the
\* interval it would have.
candidate(store, i, req) ==
  LET r     == store[i]
      d     == IF req[1] # << >> THEN req[1][1] ELSE DayOf(r.start)
      t     == IF req[2] # << >> THEN req[2][1] ELSE TimeOf(r.start)
      start == Dt(d, t)
  IN [ professional_id |-> IF req[3] # None THEN req[3] ELSE r.professional_id,
       start |-> start,
       end   |-> start + duration_min(r.service_id) ]

\* The candidate of req for entry i overlaps another reservation of the
\* candidate professional.
collides(store, i, req) ==
  LET c == candidate(store, i, req)
  IN \E j \in 1..Len(store) :
       /\ j # i
       /\ store[j].professional_id = c.professional_id
       /\ overlaps(c.start, c.end, store[j].start, store[j].end)

\* The entries of the store the reschedule of an id acts on: the first one
\* with that id.
targets == { i \in Idx : find_index(RESERVATIONS, RESERVATIONS[i].id) = i }

\* C12: a reschedule whose candidate interval overlaps another reservation
\* of the candidate professional returns success=false and leaves the store,
\* the original reservation included, exactly as it was.
C12_CollidingRescheduleChangesNothing ==
  \A i \in targets, req \in Requests :
    collides(RESERVATIONS, i, req) =>
      LET res == apply_reschedule(RESERVATIONS, RESERVATIONS[i].id,
                                  req[1], req[2], req[3])
      IN /\ ~res.ok
         /\ res.store = RESERVATIONS

\* A reschedule has just been refused in a store where ana has two
\* reservations on one day: moving one onto the other collides.
C12_Witness ==
  /\ suggested
  /\ \E i, j \in Idx :
       /\ i # j
       /\ RESERVATIONS[i].professional_id = RESERVATIONS[j].professional_id
       /\ collides(RESERVATIONS, i,
                   << << DayOf(RESERVATIONS[j].start) >>,
                      << TimeOf(RESERVATIONS[j].start) >>, None >>)

\* The candidate of req for entry i is one the calculator can offer at all:
\* its professional offers the service and its start is a candidate of the
\* day's grid for the service.
offerable(store, i, req) ==
  LET c == candidate(store, i, req)
  IN /\ authorized(c.professional_id, store[i].service_id)
     /\ c.start \in candidates(DayOf(c.start), duration_min(store[i].service_id))

C14_RescheduleChangesOnlyWhatIsAsked ==
  /\ [] ( \A i \in targets, req \in Requests :
            LET res == apply_reschedule(RESERVATIONS, RESERVATIONS[i].id,
                                        req[1], req[2], req[3])
                r   == RESERVATIONS[i]
                d   == IF req[1] # << >> THEN req[1][1] ELSE DayOf(r.start)
                t   == IF req[2] # << >> THEN req[2][1] ELSE TimeOf(r.start)
            IN res.ok =>
                 res.store =
                   [RESERVATIONS EXCEPT ![i] =
                      [ id |-> r.id,
                        service_id |-> r.service_id,
                        professional_id |->
                          IF req[3] # None THEN req[3] ELSE r.professional_id,
                        start |-> Dt(d, t),
                        end |-> Dt(d, t) + duration_min(r.service_id) ]] )
  /\ [][ ( Len(RESERVATIONS') = Len(RESERVATIONS) /\ RESERVATIONS' # RESERVATIONS )
           => \E i \in Idx :
                /\ \A j \in Idx : j # i => RESERVATIONS'[j] = RESERVATIONS[j]
                /\ RESERVATIONS'[i].id = RESERVATIONS[i].id
                /\ RESERVATIONS'[i].service_id = RESERVATIONS[i].service_id
                /\ RESERVATIONS'[i].end =
                     RESERVATIONS'[i].start
                       + duration_min(RESERVATIONS[i].service_id) ]_vars

\* Two reservations, the first of ana and movable to luis by a request that
\* gives the professional only.
C14_Witness ==
  /\ Len(RESERVATIONS) = 2
  /\ 1 \in targets
  /\ RESERVATIONS[1].professional_id = "ana"
  /\ apply_reschedule(RESERVATIONS, RESERVATIONS[1].id, << >>, << >>, "luis").ok

\* C15: a reschedule whose resolved professional (the one asked for, or the
\* reservation's own) does not offer the reservation's service returns
\* success=false and leaves the store as it was; through the menu, whose own
\* check is only that the id exists, no reservation ever comes to be held by
\* a professional that does not offer its service.
C15_UnauthorizedRescheduleRefused ==
  /\ [] ( \A i \in targets, req \in Requests :
            ~authorized(candidate(RESERVATIONS, i, req).professional_id,
                        RESERVATIONS[i].service_id) =>
              LET res == apply_reschedule(RESERVATIONS, RESERVATIONS[i].id,
                                          req[1], req[2], req[3])
              IN ~res.ok /\ res.store = RESERVATIONS )
  /\ [][ ( Len(RESERVATIONS') = Len(RESERVATIONS) /\ RESERVATIONS' # RESERVATIONS )
           => \A i \in Idx :
                authorized(RESERVATIONS'[i].professional_id,
                           RESERVATIONS'[i].service_id) ]_vars

\* A reschedule has just been refused in a store with a corte of ana, the
\* service luis, whose id exists, does not offer.
C15_Witness ==
  /\ suggested
  /\ \E i \in targets :
       /\ RESERVATIONS[i].service_id = "corte"
       /\ ~authorized("luis", RESERVATIONS[i].service_id)
       /\ ~apply_reschedule(RESERVATIONS, RESERVATIONS[i].id,
                            << >>, << >>, "luis").ok

\* C16: after any sequence of bookings, cancellations and reschedules no two
\* reservations of the store share an id, and a reservation keeps the id it
\* was created with.
C16_IdsUniqueAndStable ==
  /\ [] ( \A i, j \in Idx : i # j => RESERVATIONS[i].id # RESERVATIONS[j].id )
  /\ [][ ( Len(RESERVATIONS') = Len(RESERVATIONS) )
           => \A i \in Idx : RESERVATIONS'[i].id = RESERVATIONS[i].id ]_vars

\* The rows of the importer's table.
Rows == 1..Len(DB)

\* C17: every reservation, booked at the menu or written by the importer
\* (inserted or updated), ends duration_min(service) minutes after it starts.
C17_EndIsStartPlusDuration ==
  /\ \A i \in Idx :
       RESERVATIONS[i].end =
         RESERVATIONS[i].start + duration_min(RESERVATIONS[i].service_id)
  /\ \A i \in Rows :
       DB[i].service_id \in ServiceIds
         => DB[i].end = DB[i].start + duration_min(DB[i].service_id)

\* C18: every reservation, booked at the menu or written by the importer, has
\* a service of the catalog and a professional of the catalog who offers
\* that service.
C18_ReferencesExistAndAuthorized ==
  /\ \A i \in Idx :
       /\ RESERVATIONS[i].service_id \in ServiceIds
       /\ RESERVATIONS[i].professional_id \in ProIds
       /\ authorized(RESERVATIONS[i].professional_id,
                     RESERVATIONS[i].service_id)
  /\ \A i \in Rows :
       /\ DB[i].service_id \in ServiceIds
       /\ DB[i].professional_id \in ProIds
       /\ authorized(DB[i].professional_id, DB[i].service_id)

\* C19: a sync-from-gcal run right after another with the same arguments,
\* the calendars unchanged in between, reports inserted = 0 and updated = 0
\* and leaves every row of the table as it was.
C19_SecondRunChangesNothing ==
  /\ [] ( (report.ran /\ report.rerun)
            => report.inserted = 0 /\ report.updated = 0 )
  /\ [][ (report'.ran /\ report'.rerun) => DB' = DB ]_vars

\* The calendars the run just reported has imported: all of them with
\* --by-professional, else the one given, if a professional was given too.
covered(c) ==
  \/ report.args.by_professional
  \/ report.args.calendar = c /\ report.args.professional # ""

\* C20: an event is stored under its metadata's reservation_id when it has
\* one and else under a key made of its event id alone; whatever the runs,
\* no two rows of the table share a key, and every event a run has imported
\* has exactly one row.
C20_OneReservationPerKey ==
  /\ \A i, j \in Rows : i # j => DB[i].id # DB[j].id
  /\ \A i \in Rows :
       DB[i].id \in { gcal_key(x) : x \in EventIds }
         => DB[i].id = gcal_key(DB[i].google_event_id)
  /\ report.ran =>
       \A c \in CalendarIds : \A e \in GCAL[c] :
         covered(c) =>
           LET key == IF e.private.reservation_id # None
                      THEN e.private.reservation_id
                      ELSE gcal_key(e.id)
           IN Cardinality({ i \in Rows : DB[i].id = key }) = 1

\* Two events of one calendar carrying the same reservation_id, imported
\* twice: the table still holds the one row.
C20_Witness ==
  /\ report.ran /\ report.rerun
  /\ report.inserted = 0 /\ report.updated = 2
  /\ Len(DB) = 1
  /\ \E c \in CalendarIds : Cardinality(GCAL[c]) = 2

\* The professional a run would give an event: the metadata's, else the
\* scope's, else --professional; "" when none is set.
resolved_pro(e, pro_id, args) ==
  IF e.private.professional_id # None THEN e.private.professional_id
  ELSE IF pro_id # "" THEN pro_id
  ELSE args.professional

\* The service a run would give an event.
resolved_service(e, args) ==
  IF e.private.service_id # None THEN e.private.service_id
  ELSE _detect_service(e.summary, args.default_service)

\* The professional of the scope an event is imported under; "" when the
\* run is not --by-professional.
ScopePros == ProIds \cup {""}

\* C21: an event that resolves to a row of the table leaves every other row
\* alone, keeps the row's id, sets start, end, professional_id, service_id,
\* google_event_id and google_calendar_id to the event's values, and counts
\* one update when at least one of the six differed; when none differed the
\* table is as it was and nothing is counted.
C21_UpdateOnlyWhatDiffers ==
  \A c \in CalendarIds : \A e \in GCAL[c] :
    \A pro_id \in ScopePros, args \in SyncArgs :
      LET i == db_index(DB, IF e.private.reservation_id # None
                            THEN e.private.reservation_id
                            ELSE gcal_key(e.id))
          out == upsert_event([db |-> DB, inserted |-> 0, updated |-> 0],
                              e, c, pro_id, args)
          differs ==
            \/ DB[i].start # _parse_iso_to_dt(e.start)
            \/ DB[i].end # _parse_iso_to_dt(e.end)
            \/ DB[i].professional_id # resolved_pro(e, pro_id, args)
            \/ DB[i].service_id # resolved_service(e, args)
            \/ DB[i].google_event_id # e.id
            \/ DB[i].google_calendar_id # c
      IN (i # 0 /\ resolved_pro(e, pro_id, args) # "") =>
           /\ Len(out.db) = Len(DB)
           /\ out.inserted = 0
           /\ \A j \in Rows : j # i => out.db[j] = DB[j]
           /\ out.db[i].id = DB[i].id
           /\ out.db[i].start = _parse_iso_to_dt(e.start)
           /\ out.db[i].end = _parse_iso_to_dt(e.end)
           /\ out.db[i].professional_id = resolved_pro(e, pro_id, args)
           /\ out.db[i].service_id = resolved_service(e, args)
           /\ out.db[i].google_event_id = e.id
           /\ out.db[i].google_calendar_id = c
           /\ out.updated = IF differs THEN 1 ELSE 0
           /\ ~differs => out.db = DB

\* An event carrying reservation_id r1, imported, given new dates and
\* imported again: the one row has the new start and the run counts 1.
C21_Witness ==
  /\ report.ran /\ report.inserted = 0 /\ report.updated = 1
  /\ Len(DB) = 1
  /\ DB[1].id = "r1" /\ DB[1].start = Dt(0, 630) /\ DB[1].end = Dt(0, 690)
  /\ Cardinality(UNION { GCAL[c] : c \in CalendarIds }) = 1

\* create(service_id, professional_id, start) over a store snapshot: what it
\* answers.
create_answer(store, service_id, pro_id, start) ==
  IF service_id \notin ServiceIds \/ pro_id \notin ProIds THEN "not_found"
  ELSE IF ~authorized(pro_id, service_id) THEN "unauthorized"
  ELSE IF ~is_free(store, pro_id, start, start + duration_min(service_id))
  THEN "conflict"
  ELSE "created"

C23_FetchFailureSkipsOnlyItsScope ==
  (report.crashed /\ report.fault.kind = "fetch") =>
    \A c \in CalendarIds \ {report.fault.cal} :
      covered(c) =>
        \A e \in GCAL[c] : \E i \in Rows : DB[i].id = event_key(e)

\* C24: when the rows written for one calendar could not be committed during
\* a run, the run goes on: the events of every other calendar of the run have
\* their rows.
C24_CommitFailureDoesNotStopTheRun ==
  (report.crashed /\ report.fault.kind = "commit") =>
    \A c \in CalendarIds \ {report.fault.cal} :
      covered(c) =>
        \A e \in GCAL[c] : \E i \in Rows : DB[i].id = event_key(e)

\* C25: an event is given the professional of its metadata, else the
\* scope's, else --professional; with none of them it is passed over, the
\* table and the counts staying as they are, and the events after it in the
\* same calendar still get their rows.
C25_ProfessionalResolution ==
  /\ \A c \in CalendarIds : \A e \in GCAL[c] :
       \A pro_id \in ScopePros, args \in SyncArgs :
         LET acc == [db |-> DB, inserted |-> 0, updated |-> 0]
             out == upsert_event(acc, e, c, pro_id, args)
             pro == IF e.private.professional_id # None
                    THEN e.private.professional_id
                    ELSE IF pro_id # "" THEN pro_id
                    ELSE args.professional
         IN IF pro = "" THEN out = acc
            ELSE \E i \in 1..Len(out.db) :
                   /\ out.db[i].id = event_key(e)
                   /\ out.db[i].professional_id = pro
  /\ (report.ran /\ ~report.args.by_professional
        /\ report.args.professional = "") =>
       \A e \in GCAL[report.args.calendar] :
         e.private.professional_id # None =>
           \E i \in Rows : /\ DB[i].id = event_key(e)
                           /\ DB[i].professional_id =
                                e.private.professional_id

\* A run over one calendar with no --professional: event e1 names no
\* professional and has no row, event e2 names ana in its metadata and is
\* the one row of the table.
C25_Witness ==
  /\ report.ran /\ ~report.args.by_professional
  /\ report.args.professional = ""
  /\ report.inserted = 1 /\ report.updated = 0
  /\ Len(DB) = 1 /\ DB[1].id = gcal_key("e2")
  /\ DB[1].professional_id = "ana"
  /\ \E e \in GCAL[report.args.calendar] :
       e.id = "e1" /\ e.private.professional_id = None

\* The keyword rules in their order, and the texts and defaults tried.
Rules == << "tinte", "barba", "corte" >>
Keywords == {"tinte", "barba", "corte", "hola"}
Defaults == {"corte", "tinte", "manicura"}

\* The first rule whose keyword is in the summary, 0 when there is none.
first_rule(summary) ==
  IF \E k \in 1..Len(Rules) : Rules[k] \in summary
  THEN CHOOSE k \in 1..Len(Rules) :
         /\ Rules[k] \in summary
         /\ \A j \in 1..(k - 1) : Rules[j] \notin summary
  ELSE 0

\* C26: an event's service is its metadata's service_id when it has one,
\* else the first of tinte, barba, corte found in its summary, else the
\* default service; every summary, the empty one too, gets a service, and
\* the row a run writes for an event carries it.
C26_ServiceInference ==
  /\ \A summary \in SUBSET Keywords, default_sid \in Defaults :
       _detect_service(summary, default_sid) =
         IF first_rule(summary) # 0 THEN Rules[first_rule(summary)]
         ELSE default_sid
  /\ report.ran =>
       \A c \in CalendarIds : \A e \in GCAL[c] :
         covered(c) =>
           \E i \in Rows :
             /\ DB[i].id = event_key(e)
             /\ DB[i].service_id =
                  IF e.private.service_id # None THEN e.private.service_id
                  ELSE IF first_rule(e.summary) # 0
                  THEN Rules[first_rule(e.summary)]
                  ELSE report.args.default_service

\* After a run: a row with the service tinte for an event whose summary
\* holds both tinte and corte, and a row with the default service for an
\* event with an empty summary and no metadata.
C26_Witness ==
  /\ report.ran
  /\ \E c \in CalendarIds : \E e \in GCAL[c] : \E i \in Rows :
       /\ e.summary = {"tinte", "corte"} /\ e.private = NoPrivate
       /\ DB[i].id = event_key(e) /\ DB[i].service_id = "tinte"
  /\ \E c \in CalendarIds : \E e \in GCAL[c] : \E i \in Rows :
       /\ e.summary = {} /\ e.private = NoPrivate
       /\ DB[i].id = event_key(e) /\ DB[i].service_id = "corte"

\* C27: a run, finished or broken off, removes no row, leaves every row at
\* its place with its id, changes only rows whose id is the key of an event
\* of a calendar it imports, and does not touch the list of local bookings.
C27_ImportTouchesOnlyItsKeys ==
  [][ (report'.ran \/ report'.crashed) =>
        /\ Len(DB') >= Len(DB)
        /\ \A i \in Rows :
             /\ DB'[i].id = DB[i].id
             /\ DB'[i] # DB[i] =>
                  \E c \in CalendarIds : \E e \in GCAL[c] :
                    /\ \/ report'.args.by_professional
                       \/ report'.args.calendar = c
                    /\ DB[i].id = IF e.private.reservation_id # None
                                  THEN e.private.reservation_id
                                  ELSE gcal_key(e.id)
        /\ RESERVATIONS' = RESERVATIONS ]_vars

\* A run over cal_ana alone that has just updated a row, in a table that
\* also holds a row imported from cal_luis.
C27_Witness ==
  /\ report.ran /\ ~report.args.by_professional /\ report.updated = 1
  /\ \E i \in Rows : DB[i].google_calendar_id = "cal_luis"
  /\ \E i \in Rows : DB[i].google_calendar_id = "cal_ana"
  /\ \E e \in GCAL["cal_luis"] : e.private.reservation_id = None

\* C30: a finished run has added as many rows as it reports inserted, and as
\* many of the rows that were there before differ after it as it reports
\* updated.
C30_CountsMatchTheTable ==
  [][ report'.ran =>
        /\ Len(DB') = Len(DB) + report'.inserted
        /\ Cardinality({ i \in Rows : DB'[i] # DB[i] }) = report'.updated
    ]_vars

\* Entry i of a store is a whole reservation: its end is its start plus the
\* duration of its service, its professional offers the service and has no
\* other reservation overlapping it.
whole(store, i) ==
  /\ store[i].service_id \in ServiceIds
  /\ store[i].professional_id \in ProIds
  /\ authorized(store[i].professional_id, store[i].service_id)
  /\ store[i].end = store[i].start + duration_min(store[i].service_id)
  /\ is_free(without(store, i), store[i].professional_id,
             store[i].start, store[i].end)

\* C28: a reschedule that is refused, for an id not in the store, a
\* professional who does not offer the service, a time that is taken, off the
\* grid or on a closed day, returns the store it was given; and every step
\* of the menu either leaves the store as it was or applies one operation
\* completely: one whole reservation appended, one entry removed, or one
\* entry replaced by a whole reservation with its id and service.
C28_FailedOperationChangesNothing ==
  /\ [] ( \A n \in 1..(MaxRes + 1), req \in Requests :
            LET res == apply_reschedule(RESERVATIONS, ResId(n),
                                        req[1], req[2], req[3])
            IN ~res.ok => res.store = RESERVATIONS )
  /\ [][ \/ RESERVATIONS' = RESERVATIONS
         \/ /\ Len(RESERVATIONS') = Len(RESERVATIONS) + 1
            /\ SubSeq(RESERVATIONS', 1, Len(RESERVATIONS)) = RESERVATIONS
            /\ whole(RESERVATIONS', Len(RESERVATIONS'))
         \/ /\ Len(RESERVATIONS') = Len(RESERVATIONS) - 1
            /\ \E i \in Idx : RESERVATIONS' = without(RESERVATIONS, i)
         \/ /\ Len(RESERVATIONS') = Len(RESERVATIONS)
            /\ \E i \in Idx :
                 /\ \A j \in Idx \ {i} : RESERVATIONS'[j] = RESERVATIONS[j]
                 /\ RESERVATIONS'[i].id = RESERVATIONS[i].id
                 /\ RESERVATIONS'[i].service_id = RESERVATIONS[i].service_id
                 /\ whole(RESERVATIONS', i)
       ]_vars

\* A reschedule has just been refused in a store of two reservations where
\* a move to the closed day, a move to 10:15 and a move of an unknown id are
\* all refused.
C28_Witness ==
  /\ suggested
  /\ Len(RESERVATIONS) = 2
  /\ ~apply_reschedule(RESERVATIONS, RESERVATIONS[1].id,
                       << 2 >>, << >>, None).ok
  /\ ~apply_reschedule(RESERVATIONS, RESERVATIONS[2].id,
                       << >>, << 615 >>, None).ok
  /\ ~apply_reschedule(RESERVATIONS, ResId(MaxRes + 1),
                       << >>, << >>, None).ok

\* C29 as it stands: a text holding 'horario' is answered with status 200 and
\* the opening hours in the same chat, a text holding 'precio' with the
\* prices of all services, unless the chat is in the cancel step or the text
\* is taken as its first greeting; the chat's session is as it was.
C29_HorarioAndPrecioAnswered ==
  [][ \A c \in Chats :
        ( /\ reply'.chat = c
          /\ get_session(c).step # "cancel"
          /\ ~(~get_session(c).welcomed /\ "hola" \in reply'.words) ) =>
          /\ "horario" \in reply'.words =>
               /\ reply'.kind = "horario" /\ reply'.status = 200
               /\ SESSIONS'[c] = get_session(c)
          /\ "precio" \in reply'.words =>
               /\ reply'.kind = "precios" /\ reply'.status = 200
               /\ reply'.services = price_list
               /\ SESSIONS'[c] = get_session(c)
    ]_vars

\* C29, amended: the same, the prices being the answer to a text that holds
\* 'precio' and not 'horario'; a text holding both gets the opening hours.
C29_HorarioBeforePrecio ==
  [][ \A c \in Chats :
        ( /\ reply'.chat = c
          /\ get_session(c).step # "cancel"
          /\ ~(~get_session(c).welcomed /\ "hola" \in reply'.words) ) =>
          /\ "horario" \in reply'.words =>
               /\ reply'.kind = "horario" /\ reply'.status = 200
               /\ SESSIONS'[c] = get_session(c)
          /\ ("precio" \in reply'.words /\ "horario" \notin reply'.words) =>
               /\ reply'.kind = "precios" /\ reply'.status = 200
               /\ reply'.services = price_list
               /\ SESSIONS'[c] = get_session(c)
    ]_vars

\* The prices have just been sent to a chat that has chosen a service and a
\* professional and is picking its day.
C29_Witness ==
  /\ reply.kind = "precios" /\ reply.chat \in Chats
  /\ reply.services = << "corte", "tinte" >>
  /\ SESSIONS[reply.chat].service # None
  /\ SESSIONS[reply.chat].professional # None

\* The slots the backend's slot service returned to the day handler just run:
\* its list when it answered 200, none when it refused, failed or was silent.
slots_returned ==
  LET sess == get_session(sent.chat)
      r    == backend_slots(IF sess.service # None THEN sess.service
                            ELSE "corte",
                            sess.day[1],
                            IF sess.professional \in ProIds
                            THEN sess.professional ELSE None)
  IN IF sent.answered /\ r.status = 200 THEN norm(r.slots) ELSE << >>

\* C31: in the Telegram booking flow, when the slot service returns an empty
\* list for the day chosen, the day handler shows no hours and puts the date
\* keyboard back; the hours keyboard it shows never holds a time the slot
\* service did not return.
C31_HoursShownWereReturned ==
  sent.chat \in Chats =>
    /\ elements(sent.hours) \subseteq elements(slots_returned)
    /\ ( sent.answered /\ slots_returned = << >> ) =>
         /\ sent.hours = << >>
         /\ kb[sent.chat].kind = "fechas"

\* C32: in the Telegram flow a reservation request goes to the backend only
\* on a "time:" callback of a chat whose session holds a service, a choice of
\* professional and a day, put there by the srv, pro and day steps, and the
\* request is for that service, that choice, that day and the time pressed.
C32_RequestCarriesTheSelections ==
  [][ ( post' # NoPost /\ post'.chosen_pro # None ) =>
        LET sess == get_session(post'.chat)
        IN /\ sess.service # None
           /\ sess.professional # None
           /\ sess.day # << >>
           /\ post'.service_id = sess.service
           /\ post'.professional = sess.professional
           /\ post'.day = sess.day[1]
           /\ post'.chosen_pro \in
                IF sess.professional = "any" THEN ProIds
                ELSE {sess.professional} ]_vars

\* The answers of the cancel flow: the reservation was deleted, the backend
\* knows no such reservation, it answered something else, it did not answer.
CancelKinds ==
  {"cancelled", "cancel_not_found", "cancel_failed", "cancel_error"}

\* C33 as stated: while a chat's session is in step "cancel", every text
\* message that is not empty and does not begin with "/" is taken as a
\* reservation id and answered by the cancel flow alone, never by the
\* greeting, the opening hours, the prices or the menu.
C33_EveryTextIsAnId ==
  [][ \A c \in Chats :
        ( /\ get_session(c).step = "cancel"
          /\ reply'.chat = c
          /\ reply'.kind # "start" )
          => reply'.kind \in CancelKinds ]_vars

\* C33: while a chat's session is in step "cancel", a text message that is
\* not empty and does not begin with "/" is taken as a reservation id, unless
\* the chat has not been welcomed and the text holds a greeting, which is
\* answered with the welcome.  One cancel request is made for the id and only
\* the cancel flow answers; the session goes back to its initial state exactly
\* when the backend answers 200, and stays as it was, in step "cancel", on
\* 404, on any other status and when the backend does not answer.
C33_CancelStepTakesTextAsId ==
  [][ \A c \in Chats :
        ( /\ get_session(c).step = "cancel"
          /\ reply'.chat = c
          /\ reply'.kind # "start" ) =>
          LET sess == get_session(c)
          IN IF ~sess.welcomed /\ "hola" \in reply'.words
             THEN /\ reply'.kind = "welcome"
                  /\ SESSIONS'[c] = [sess EXCEPT !.welcomed = TRUE]
                  /\ RESERVATIONS' = RESERVATIONS
             ELSE /\ reply'.kind \in CancelKinds
                  /\ reply'.kind = "cancelled" =>
                       /\ find_index(RESERVATIONS, reply'.rid) # 0
                       /\ RESERVATIONS' =
                            cancel_reservation(RESERVATIONS, reply'.rid).store
                       /\ SESSIONS'[c] = NewSession
                  /\ reply'.kind # "cancelled" =>
                       /\ RESERVATIONS' = RESERVATIONS
                       /\ SESSIONS'[c] = sess
                  /\ \A rid \in HookIds, net \in Net :
                       tg_text_id(c, rid, net) =>
                         ( reply'.kind = "cancelled" <=>
                             /\ net = "ok"
                             /\ backend_cancel(rid).status = 200 ) ]_vars

\* A chat in step "cancel" sent the id of a reservation, the backend deleted
\* it and the session is back at its initial state.
C33_Witness ==
  /\ reply.kind = "cancelled"
  /\ reply.chat \in Chats
  /\ get_session(reply.chat) = NewSession
  /\ RESERVATIONS = << >>

\* C34: after a "time:" callback whose reservation is made, the chat's session
\* is the initial one (step menu, no service, professional, day or time) and
\* the store holds the new reservation; when the reservation is not made, the
\* session keeps the service, professional and day it had, only the time
\* pressed is added, the store is unchanged and nothing is confirmed.
C34_SessionAfterTime ==
  [][ post' # NoPost =>
        LET c    == post'.chat
            sess == get_session(c)
        IN IF post'.status = 200
           THEN /\ SESSIONS'[c] = NewSession
                /\ RESERVATIONS' =
                     Append(RESERVATIONS,
                            new_reservation(post'.service_id, post'.chosen_pro,
                                            Dt(post'.day, post'.hhmm)))
           ELSE /\ SESSIONS'[c].service = sess.service
                /\ SESSIONS'[c].professional = sess.professional
                /\ SESSIONS'[c].day = sess.day
                /\ SESSIONS'[c].step = sess.step
                /\ SESSIONS'[c].welcomed = sess.welcomed
                /\ SESSIONS'[c].time = << post'.hhmm >>
                /\ RESERVATIONS' = RESERVATIONS ]_vars

\* The backend refused a reservation (the hour was taken meanwhile) and the
\* chat's session still holds the service, professional and day chosen.
C34_Witness ==
  /\ post # NoPost
  /\ post.status = 409
  /\ get_session(post.chat).service = "tinte"
  /\ get_session(post.chat).professional = "ana"
  /\ get_session(post.chat).day = << 1 >>

\* C35: the welcome is sent in answer to a greeting only while the session's
\* welcomed flag is false, and sending it sets the flag; a flag that is set
\* is cleared only by a reset of the session, so between two resets a chat
\* gets the greeting welcome at most once, whatever messages and callbacks
\* are handled.
C35_WelcomeOncePerSession ==
  [][ /\ reply'.kind = "welcome" =>
           /\ "hola" \in reply'.words
           /\ ~get_session(reply'.chat).welcomed
           /\ SESSIONS'[reply'.chat].welcomed
      /\ \A c \in DOMAIN SESSIONS :
           ( SESSIONS[c].welcomed /\ ~SESSIONS'[c].welcomed )
             => SESSIONS'[c] = NewSession ]_vars

\* A chat that has been welcomed greets again and is answered by something
\* other than the welcome.
C35_Witness ==
  /\ reply.chat \in Chats
  /\ "hola" \in reply.words
  /\ reply.kind \notin {"welcome", "none"}
  /\ get_session(reply.chat).welcomed

\* C36: from every state of the session, the text "/start" puts the chat's
\* session back to the initial one (step menu, nothing selected, welcomed
\* false) and is answered with the menu; in the cancel step too, where it is
\* not taken as a reservation id: nothing is deleted.
C36_StartResets ==
  /\ [](\A c \in Chats : ENABLED tg_start(c))
  /\ [][ reply'.kind = "start" =>
           /\ SESSIONS'[reply'.chat] = NewSession
           /\ \A c \in DOMAIN SESSIONS \ {reply'.chat} :
                SESSIONS'[c] = SESSIONS[c]
           /\ kb'[reply'.chat] = Keyboard("menu", << >>)
           /\ reply'.status = 200
           /\ post' = NoPost
           /\ RESERVATIONS' = RESERVATIONS ]_vars

\* "/start" has just been answered and the store still holds a reservation:
\* a chat that booked, went on to the cancel step or elsewhere, and started
\* over.
C36_Witness ==
  /\ reply.kind = "start"
  /\ get_session(reply.chat) = NewSession
  /\ RESERVATIONS # << >>

\* The step handles an update of chat a.
handles(a) ==
  \/ tg_start(a)
  \/ tg_menu_reservar(a)
  \/ \E service_id \in ServiceIds : tg_srv(a, service_id)
  \/ \E pro \in ProIds \cup {"any"} : tg_pro(a, pro)
  \/ \E d \in Days, net \in Net : tg_day(a, d, net)
  \/ \E hhmm \in Times, nets \in [ProIds -> Net], net \in Net :
       tg_time(a, hhmm, nets, net)
  \/ \E words \in SUBSET Words, net \in Net : tg_text(a, words, net)

\* C37: handling an update of chat a, however the updates of the chats are
\* interleaved, changes the session stored for chat a only: every other chat
\* has the session it had, or still none, and the keyboard it had; and a
\* reservation request made for chat a is for the service, professional and
\* day of chat a's own session.
C37_OnlyTheChatsOwnSession ==
  [][ \A a \in TwoChats :
        handles(a) =>
          /\ \A b \in TwoChats \ {a} :
               /\ b \in DOMAIN SESSIONS' <=> b \in DOMAIN SESSIONS
               /\ b \in DOMAIN SESSIONS => SESSIONS'[b] = SESSIONS[b]
               /\ kb'[b] = kb[b]
          /\ post' # NoPost =>
               LET sess == get_session(a)
               IN /\ post'.chat = a
                  /\ post'.service_id =
                       IF sess.service # None THEN sess.service ELSE "corte"
                  /\ post'.professional = sess.professional
                  /\ post'.day = IF sess.day # << >> THEN sess.day[1] ELSE 0
    ]_vars

\* A reservation has just been made for chat 1 with its own service while
\* chat 2, half way through its own booking, holds the other service.
C37_Witness ==
  /\ post # NoPost
  /\ post.chat = 1
  /\ post.status = 200
  /\ post.service_id = "tinte"
  /\ 2 \in DOMAIN SESSIONS
  /\ SESSIONS[2].service = "corte"
  /\ SESSIONS[2].day = << 0 >>
  /\ get_session(1) = NewSession

\* The step handles an update that came with the header value tok.
arrives(tok) ==
  \E c \in Chats :
    \/ telegram_webhook(tok, tg_start(c))
    \/ \E words \in SUBSET Words, net \in Net :
         telegram_webhook(tok, tg_text(c, words, net))
    \/ \E rid \in HookIds, net \in Net :
         telegram_webhook(tok, tg_text_id(c, rid, net))
    \/ telegram_webhook(tok, callback_menu_reservar(c))
    \/ telegram_webhook(tok, callback_menu_cancelar(c))
    \/ telegram_webhook(tok, callback_back_menu(c))
    \/ \E step \in {"srv", "pro", "day"} :
         telegram_webhook(tok, callback_back(c, step))
    \/ telegram_webhook(tok, callback_other(c))
    \/ \E service_id \in HookServices :
         telegram_webhook(tok, callback_srv(c, service_id))
    \/ \E pro \in HookPros : telegram_webhook(tok, callback_pro(c, pro))
    \/ \E d \in HookDays, net \in Net :
         telegram_webhook(tok, callback_day(c, d, net))
    \/ \E hhmm \in HookTimes, net \in Net :
         telegram_webhook(tok, callback_time(c, hhmm, [p \in ProIds |-> net],
                                             net))

\* C38: with a webhook secret configured, an update whose secret-token header
\* is missing or is not the secret is answered 401 before its body is read:
\* no session is made or changed, no keyboard or message is sent, no request
\* goes to the backend and the store is as it was.
C38_WrongSecretIsTurnedAway ==
  [][ /\ \A tok \in Tokens \ {TELEGRAM_WEBHOOK_SECRET} :
           arrives(tok) => reply'.status = 401
      /\ reply'.status = 401 =>
           /\ reply'.chat = 0
           /\ SESSIONS' = SESSIONS
           /\ kb' = kb
           /\ RESERVATIONS' = RESERVATIONS
           /\ sent' = NoSent
           /\ post' = NoPost ]_vars

\* An update has just been turned away while a chat is in the cancel step
\* and the store holds a reservation it could have deleted.
C38_Witness ==
  /\ TELEGRAM_WEBHOOK_SECRET # ""
  /\ reply.status = 401
  /\ 1 \in DOMAIN SESSIONS
  /\ SESSIONS[1].step = "cancel"
  /\ RESERVATIONS # << >>

=============================================================================
